---- MODULE Spec2Model ----
(***************************************************************************)
(* A model of the deliberation core of the Eleanor orchestrator (V7):      *)
(* the runtime shell (EleanorRuntime.decide), the hybrid core              *)
(* (HybridCore.deliberate), the router, the fusion engines and the event   *)
(* bus.                                                                    *)
(*                                                                         *)
(* Numbers.  Scores and confidences are held in tenths (0.9 is 9), weights *)
(* in hundredths (0.25 is 25).  A value computed from them is held as an   *)
(* exact fraction <<numerator, denominator>>; fractions are compared by    *)
(* cross multiplication, so no rounding is introduced by the model.        *)
(***************************************************************************)
EXTENDS Integers, Sequences, FiniteSets, TLC

(***************************************************************************)
(* Bounds of the model                                                     *)
(***************************************************************************)
\* number of decide calls the load specification has in flight
NumRequests == 3

\* largest max_retries a backend is configured with
MaxRetries == 2
\* the chunks the streams of one orchestrate yield
MaxChunks == 2
\* the critics for which one adapter streams chunks or fails
MaxLive == 1

Requests == 1 .. NumRequests

VARIABLES
    config,          \* RuntimeConfig given to bootstrap_runtime
    mode,            \* HybridCore.mode, a HybridModeConfig
    threshold,       \* UncertaintyEngine.threshold, a fraction
    backend,         \* the ModelBackendConfig the router resolves
    runner,          \* the backend runner: the outcomes one invocation may have
    critics,         \* HybridCore.critics: name -> the outcomes evaluate may have
    storage,         \* the storage backend: "none", "ok" or "raises"
    callers,         \* the requests whose decide is called
    state,           \* EleanorRuntime.state, the RuntimeState counters and log
    semaphore,       \* EleanorRuntime.semaphore
    pc,              \* where each decide call stands
    attempts,        \* runner invocations made by Router._run_backend
    last_exc,        \* last_exc of Router._run_backend
    backend_result,  \* the response Router.execute returned
    tasks,           \* the critic tasks of _evaluate_critics, by name
    results,         \* the results dict of _evaluate_critics
    fusion_out,      \* what ConsensusFusion.decide returned
    outcome,         \* how HybridCore.deliberate ended, as seen by wait_for
    result,          \* the envelope decide returns
    emitted,         \* what each decide call has emitted, fired and counted, in order
    probe,           \* a pure function under test: its inputs and its result
    bus,             \* the EventBus singleton: its listener table and the emit in progress
    hooks,           \* the HookManager singleton: its hook table and the fire in progress
    stream           \* orchestrate of the streaming driver: its critic tasks and results

configVars == <<config, mode, threshold, backend, runner, critics, storage, callers>>

runtimeVars == <<state, semaphore, pc, attempts, last_exc, backend_result, tasks, results,
                 fusion_out, outcome, result, emitted>>

vars == <<configVars, runtimeVars, probe, bus, hooks, stream>>

(***************************************************************************)
(* Generic helpers                                                         *)
(***************************************************************************)
RECURSIVE SumOver(_, _)
\* sum of f[x] for x in S
SumOver(f, S) ==
    IF S = {} THEN 0
    ELSE LET x == CHOOSE y \in S : TRUE IN f[x] + SumOver(f, S \ {x})

MinOf(S) == CHOOSE x \in S : \A y \in S : x <= y

Smaller(a, b) == IF a <= b THEN a ELSE b

\* comparison of fractions with positive denominators
FracGeq(a, b) == a[1] * b[2] >= b[1] * a[2]

FracEq(a, b) == a[1] * b[2] = b[1] * a[2]

NoValue == [kind |-> "none"]

(***************************************************************************)
(* Critic judgments                                                        *)
(***************************************************************************)
\* numeric: whether float() accepts the score and the confidence
Judgment(s, c, v) ==
    [score |-> s, confidence |-> c, violation |-> v, rationale |-> "ok", numeric |-> TRUE]

\* a judgment whose score is no number
Garbled(v) ==
    [score |-> 0, confidence |-> 0, violation |-> v, rationale |-> "ok", numeric |-> FALSE]

\* hybrid_core.py: the judgment substituted for a critic whose evaluate raised
ZeroFilled ==
    [score |-> 0, confidence |-> 0, violation |-> FALSE, rationale |-> "Critic error",
     numeric |-> TRUE]

(***************************************************************************)
(* UncertaintyEngine.compute                                               *)
(***************************************************************************)
\* statistics.pvariance(scores) when there is more than one score, else 0.0;
\* with scores in tenths the variance is (n*sum(s^2) - sum(s)^2) / (100 n^2)
Dispersion(cr) ==
    LET names == DOMAIN cr
        n     == Cardinality(names)
        sc    == [c \in names |-> cr[c].score]
        sq    == [c \in names |-> cr[c].score * cr[c].score]
    IN  IF n > 1
        THEN <<n * SumOver(sq, names) - SumOver(sc, names) * SumOver(sc, names), 100 * n * n>>
        ELSE <<0, 100 * n * n>>

MinConfidence(cr) == MinOf({cr[c].confidence : c \in DOMAIN cr})

\* the variant of compute that escalates only strictly above the threshold
UncertaintyComputeStrict(cr, thr) ==
    LET n        == Cardinality(DOMAIN cr)
        disp     == Dispersion(cr)
        low_conf == MinConfidence(cr) < 3
        den      == 1000 * n * n
        raw      == Smaller(den, 25 * disp[1] + (IF low_conf THEN 300 * n * n ELSE 0))
    IN  [uncertainty    |-> <<raw, den>>,
         escalate       |-> ~FracGeq(thr, <<raw, den>>),
         dispersion     |-> disp,
         min_confidence |-> MinConfidence(cr)]

\* raw_uncertainty = min(1.0, dispersion * 2.5 + (0.3 if low_conf else 0.0)), over the
\* common denominator 1000 n^2;  escalate = raw_uncertainty >= threshold
UncertaintyCompute(cr, thr) ==
    LET n        == Cardinality(DOMAIN cr)
        disp     == Dispersion(cr)
        low_conf == MinConfidence(cr) < 3
        den      == 1000 * n * n
        raw      == Smaller(den, 25 * disp[1] + (IF low_conf THEN 300 * n * n ELSE 0))
    IN  [uncertainty    |-> <<raw, den>>,
         escalate       |-> FracGeq(<<raw, den>>, thr),
         dispersion     |-> disp,
         min_confidence |-> MinConfidence(cr)]

(***************************************************************************)
(* CriticFusion.fuse                                                       *)
(***************************************************************************)
\* CriticFusion.RIGHTS_CRITICS
RIGHTS_CRITICS == {"rights"}

\* CriticFusion.DEFAULT_WEIGHTS, in hundredths
DEFAULT_WEIGHTS == [rights |-> 0, risk |-> 25, fairness |-> 25, truth |-> 25, pragmatics |-> 25]

\* self.weights.get(name, 0.0)
Weight(name) == IF name \in DOMAIN DEFAULT_WEIGHTS THEN DEFAULT_WEIGHTS[name] ELSE 0

\* the fuse for which every critic is a rights critic
LexViolationsAnyCritic(cr) == {c \in DOMAIN cr : cr[c].violation}

\* the names fuse appends to lex_violations
LexViolations(cr) == {c \in DOMAIN cr : c \in RIGHTS_CRITICS /\ cr[c].violation}

\* float(out.get("score")) fails on a score that is no number: fuse raises, unless the
\* lexicographic phase has returned before the weighted phase is reached
FuseRaises(cr) == LexViolations(cr) = {} /\ \E c \in DOMAIN cr : ~cr[c].numeric

\* the fusion in which a rights violation is weighed like any other judgment
CriticFuseNoLex(cr) ==
    [aggregate_score |-> <<SumOver([c \in DOMAIN cr |-> Weight(c) * cr[c].score], DOMAIN cr), 1000>>,
     violations      |-> {},
     lex_block       |-> FALSE,
     details         |-> [critic_outputs |-> cr]]

CriticFuse(cr) ==
    IF LexViolations(cr) # {}
    THEN [aggregate_score |-> <<0, 1000>>,
          violations      |-> LexViolations(cr),
          lex_block       |-> TRUE,
          details         |-> [critic_outputs |-> cr]]
    ELSE [aggregate_score |-> <<SumOver([c \in DOMAIN cr |-> Weight(c) * cr[c].score], DOMAIN cr), 1000>>,
          violations      |-> {},
          lex_block       |-> FALSE,
          details         |-> [critic_outputs |-> cr]]

(***************************************************************************)
(* Events                                                                  *)
(***************************************************************************)
\* bus.emit(name, ...)
Ev(name) == [name |-> name, message |-> ""]

\* telemetry.emit_trace(message, ...): published under the name telemetry.trace
Trace(message) == [name |-> "telemetry.trace", message |-> message]

\* telemetry.emit_metric(name, ...): published under the name telemetry.metric
Metric(name) == [name |-> "telemetry.metric", message |-> name]

\* hooks.fire(hook_name, ...), kept in the same log as the events
Fired(hook_name) == [name |-> "hook", message |-> hook_name]

\* a call of a RuntimeState method, kept in the same log at the place decide makes it
Did(method) == [name |-> "state", message |-> method]

(***************************************************************************)
(* PrecedentEngine.fetch_relevant and ConsensusFusion.decide               *)
(***************************************************************************)
\* the query that is made for a missing vector too
QueriesWithoutVector(store, vector) == store # "none"

\* bootstrap_runtime builds a PrecedentEngine only for a storage backend; decide
\* queries it only for a vector that is not None
Queries(store, vector) == store # "none" /\ vector

\* search_embeddings' result, or [] when it raised
FetchRelevant(store) == IF store = "ok" THEN <<"precedent">> ELSE <<>>

ConsensusDecide(cr, vector, thr, store) ==
    LET critic_out == CriticFuse(cr)
        unc        == UncertaintyCompute(cr, thr)
    IN  IF critic_out.lex_block
        THEN [action      |-> "reject",
              confidence  |-> <<1, 1>>,
              uncertainty |-> <<0, 1>>,
              lex_block   |-> TRUE,
              rationale   |-> "Rights-critical violation detected.",
              precedent   |-> <<>>]
        ELSE [action      |-> IF unc.escalate THEN "escalate" ELSE "proceed",
              confidence  |-> critic_out.aggregate_score,
              uncertainty |-> unc.uncertainty,
              lex_block   |-> FALSE,
              rationale   |-> "Decision derived from Eleanor's multi-critic fusion logic.",
              precedent   |-> IF Queries(store, vector) THEN FetchRelevant(store) ELSE <<>>]

\* the decide that runs the precedent and uncertainty engines before it looks at
\* lex_block
ConsensusEventsEnginesFirst(cr, vector, thr, store) ==
    (IF Queries(store, vector) /\ store = "raises" THEN <<Trace("precedent.error")>> ELSE <<>>)
    \o <<Metric("uncertainty.score")>>
    \o (IF UncertaintyCompute(cr, thr).escalate THEN <<Trace("fusion.escalate")>> ELSE <<>>)

\* what decide and the engines under it emit, in order
ConsensusEvents(cr, vector, thr, store) ==
    IF CriticFuse(cr).lex_block THEN <<>>
    ELSE (IF Queries(store, vector) /\ store = "raises" THEN <<Trace("precedent.error")>> ELSE <<>>)
         \o <<Metric("uncertainty.score")>>
         \o (IF UncertaintyCompute(cr, thr).escalate THEN <<Trace("fusion.escalate")>> ELSE <<>>)

(***************************************************************************)
(* HybridMode and HybridCore._apply_mode                                   *)
(***************************************************************************)
ModeNames == {"strict", "balanced", "permissive", "advisory", "appliance", "distributed"}

HybridModeConfig(n, lex, over, auto, thr, block, adv) ==
    [name |-> n, enforce_lex |-> lex, allow_override |-> over, auto_escalate |-> auto,
     uncertainty_threshold |-> thr, block_on_violation |-> block, advisory_only |-> adv]

\* HybridMode.get
HybridModeGet(n) ==
    CASE n = "strict"      -> HybridModeConfig(n, TRUE, FALSE, TRUE, <<25, 100>>, TRUE, FALSE)
      [] n = "balanced"    -> HybridModeConfig(n, TRUE, FALSE, TRUE, <<35, 100>>, TRUE, FALSE)
      [] n = "permissive"  -> HybridModeConfig(n, FALSE, TRUE, FALSE, <<50, 100>>, FALSE, FALSE)
      [] n = "advisory"    -> HybridModeConfig(n, FALSE, TRUE, FALSE, <<100, 100>>, FALSE, TRUE)
      [] n = "appliance"   -> HybridModeConfig(n, TRUE, FALSE, TRUE, <<30, 100>>, TRUE, FALSE)
      [] n = "distributed" -> HybridModeConfig(n, TRUE, FALSE, TRUE, <<30, 100>>, TRUE, FALSE)

EscalationRequired == [kind |-> "escalation", reason |-> "Uncertainty threshold exceeded."]

Returned(decision) == [kind |-> "decision", value |-> decision]

Raised(text) == [kind |-> "error", error |-> text]

TimedOut == [kind |-> "timeout"]

\* the _apply_mode that blocks on every lex block, whatever the mode's enforce_lex
ApplyModeAlwaysBlocks(m, fusion) ==
    IF fusion.lex_block
    THEN Returned([action |-> "reject", reason |-> "rights_violation", fusion |-> fusion])
    ELSE IF m.advisory_only
    THEN Returned([action |-> "advice", fusion |-> fusion])
    ELSE IF fusion.action = "escalate" /\ m.auto_escalate
    THEN EscalationRequired
    ELSE Returned(fusion)

\* the gate that asks for advisory_only before it looks for a lex block
ApplyModeAdviceFirst(m, fusion) ==
    IF m.advisory_only
    THEN Returned([action |-> "advice", fusion |-> fusion])
    ELSE IF fusion.lex_block /\ m.enforce_lex
    THEN Returned([action |-> "reject", reason |-> "rights_violation", fusion |-> fusion])
    ELSE IF fusion.action = "escalate" /\ m.auto_escalate
    THEN EscalationRequired
    ELSE Returned(fusion)

\* _apply_mode: how deliberate ends for a fusion result
ApplyMode(m, fusion) ==
    IF fusion.lex_block /\ m.enforce_lex
    THEN Returned([action |-> "reject", reason |-> "rights_violation", fusion |-> fusion])
    ELSE IF m.advisory_only
    THEN Returned([action |-> "advice", fusion |-> fusion])
    ELSE IF fusion.action = "escalate" /\ m.auto_escalate
    THEN EscalationRequired
    ELSE Returned(fusion)

(***************************************************************************)
(* asyncio.Semaphore, as EleanorRuntime uses it (CPython 3.11): release    *)
(* hands the permit to the first waiter that has not been woken; a woken   *)
(* waiter leaves the queue when it resumes.                                *)
(***************************************************************************)
Semaphore(n) == [value |-> n, waiters |-> <<>>, woken |-> {}]

Locked(sem) == sem.value = 0 \/ Len(sem.waiters) > 0

WakeUpNext(sem) ==
    LET sleeping == {i \in 1 .. Len(sem.waiters) : sem.waiters[i] \notin sem.woken}
    IN  IF sleeping = {} THEN sem
        ELSE [sem EXCEPT !.value = @ - 1, !.woken = @ \cup {sem.waiters[MinOf(sleeping)]}]

Release(sem) == WakeUpNext([sem EXCEPT !.value = @ + 1])

Without(seq, x) == SelectSeq(seq, LAMBDA y : y # x)

\* the tail of acquire(), run by a waiter that was woken
Resumed(sem, r) ==
    LET left == [sem EXCEPT !.waiters = Without(@, r), !.woken = @ \ {r}]
    IN  IF left.value > 0 THEN WakeUpNext(left) ELSE left

(***************************************************************************)
(* RuntimeState                                                            *)
(***************************************************************************)
RuntimeState == [active_tasks |-> 0, completed_tasks |-> 0, failed_tasks |-> 0, request_log |-> {}]

log_request(st, req_id) == [st EXCEPT !.request_log = @ \cup {req_id}]

increment_active(st) == [st EXCEPT !.active_tasks = @ + 1]

decrement_active(st) == [st EXCEPT !.active_tasks = IF @ - 1 > 0 THEN @ - 1 ELSE 0]

complete(st) == [st EXCEPT !.completed_tasks = @ + 1]

\* the failure that is counted as a completion
failCountsCompleted(st) == [st EXCEPT !.completed_tasks = @ + 1]

fail(st) == [st EXCEPT !.failed_tasks = @ + 1]

(***************************************************************************)
(* Collaborators: what a backend runner and a critic may do when called    *)
(***************************************************************************)
Responds(emb) == [kind |-> "ok", embedding |-> emb]

RunnerRaises == [kind |-> "raise", embedding |-> FALSE]

\* the runner does not answer within cfg.timeout: wait_for raises TimeoutError
RunnerHangs == [kind |-> "hang", embedding |-> FALSE]

Returns(j) == [kind |-> "returned", j |-> j]

Raises == [kind |-> "raised", j |-> ZeroFilled]

\* evaluate never returns
Hangs == [kind |-> "hang", j |-> ZeroFilled]

\* a critic task that asyncio.create_task has just made
Pending == [st |-> "pending", j |-> ZeroFilled, hung |-> FALSE]

\* the order of the critics dict
CriticOrder == <<"rights", "risk", "fairness", "truth", "pragmatics">>

Empty == [c \in {} |-> ZeroFilled]

(***************************************************************************)
(* Error texts: str(exc) of the exceptions that reach decide               *)
(***************************************************************************)
NoModelText == "Model is disabled"

\* RouterError(f"Backend ... failed after ... retries: {last_exc}"); str() of a
\* TimeoutError is empty
RouterErrorText(cause) ==
    CASE cause = "RunnerError"  -> "Backend failed after retries: RunnerError"
      [] cause = "TimeoutError" -> "Backend failed after retries: "
      [] OTHER                  -> "Backend failed after retries: None"

FusionErrorText == "could not convert string to float"

\* str(asyncio.TimeoutError())
TimeoutText == ""

\* the event names the bus is used with here
EventNames == {"runtime.request.received", "telemetry.trace"}

\* what a listener does when it is awaited: return, raise an Exception, or raise
\* asyncio.CancelledError, which is no Exception
ListenerKinds == {"returns", "raises", "raises_cancelled"}

\* the tasks that call emit at the same time, such as two decide calls
Emitters == {"first", "second"}

\* an emit call that has not been made
NoCall ==
    [at               |-> "idle",
     event            |-> NoValue,
     snapshot         |-> <<>>,
     tasks            |-> <<>>,
     cancel_requested |-> FALSE,
     returned         |-> NoValue]

\* EventBus.__init__, with no emit in progress
EventBus ==
    [listeners |-> [n \in EventNames |-> <<>>],
     calls     |-> [e \in Emitters |-> NoCall]]

\* how the task of EventBus._safe_invoke ends for a listener: an Exception is caught
\* and logged and the task returns, a CancelledError cancels the task
SafeInvokeEnds(listener) ==
    CASE listener = "returns" -> "completed"
      [] listener = "raises" -> "logged"
      [] listener = "raises_cancelled" -> "cancelled"

\* the eight hook points of HookManager.__init__
HookPoints == {"before_router", "after_router", "before_critic", "after_critic",
               "before_fusion", "after_fusion", "before_runtime_step", "after_runtime_step"}

\* what a hook does when it is awaited: return, write an entry of its own into the
\* context it was given and return, raise an Exception, or raise asyncio.CancelledError
HookKinds == {"returns", "writes", "raises", "raises_cancelled"}

\* HookManager.__init__, with no register made and no fire in progress; context is the
\* map the caller of fire passed, held as the set of the entries written into it
HookManager ==
    [table     |-> [n \in HookPoints |-> <<>>],
     context   |-> {},
     accepted  |-> 0,
     last      |-> NoValue,
     at        |-> "idle",
     point     |-> "",
     tasks     |-> <<>>,
     returned  |-> NoValue]

\* how the task of HookManager._safe ends for a hook
SafeEnds(fn) ==
    CASE fn = "returns" -> "completed"
      [] fn = "writes" -> "completed"
      [] fn = "raises" -> "logged"
      [] fn = "raises_cancelled" -> "cancelled"

\* the critics of the streaming driver
CRITICS == {"rights", "fairness", "risk", "truth", "pragmatics"}

\* an orchestrate that has not been called
NoStream ==
    [at          |-> "idle",
     adapter     |-> {},
     tasks       |-> [c \in CRITICS |-> "none"],
     chunks      |-> [c \in CRITICS |-> <<>>],
     events      |-> [c \in CRITICS |-> <<>>],
     completions |-> [c \in CRITICS |-> 0],
     results     |-> Empty,
     final       |-> NoValue]

(***************************************************************************)
(* bootstrap_runtime and the construction of the runtime                   *)
(***************************************************************************)
Bootstrap(cfg, back, run, crit, store, who) ==
    /\ config = cfg
    /\ mode = HybridModeGet(cfg.mode)
    /\ threshold = <<cfg.decision_timeout, 60>>
    /\ backend = back
    /\ runner = run
    /\ critics = crit
    /\ storage = store
    /\ callers = who
    /\ state = RuntimeState
    /\ semaphore = Semaphore(cfg.max_concurrent_tasks)
    /\ pc = [r \in Requests |-> "idle"]
    /\ attempts = [r \in Requests |-> 0]
    /\ last_exc = [r \in Requests |-> "None"]
    /\ backend_result = [r \in Requests |-> NoValue]
    /\ tasks = [r \in Requests |-> Empty]
    /\ results = [r \in Requests |-> Empty]
    /\ fusion_out = [r \in Requests |-> NoValue]
    /\ outcome = [r \in Requests |-> NoValue]
    /\ result = [r \in Requests |-> NoValue]
    /\ emitted = [r \in Requests |-> <<>>]
    /\ bus = EventBus
    /\ hooks = HookManager
    /\ stream = NoStream

(***************************************************************************)
(* EleanorRuntime.decide, up to the admission                              *)
(***************************************************************************)
Decide(r) ==
    /\ r \in callers
    /\ pc[r] = "idle"
    /\ state' = log_request(state, r)
    /\ emitted' = [emitted EXCEPT ![r] =
                      <<Did("log_request"), Ev("runtime.request.received"),
                        Fired("before_runtime_step")>>]
    /\ pc' = [pc EXCEPT ![r] = "admission"]
    /\ UNCHANGED <<configVars, semaphore, attempts, last_exc, backend_result, tasks, results,
                   fusion_out, outcome, result, probe, bus, hooks, stream>>

\* the admission that counts the call as active before it holds a permit
AcquireCountsFirst(r) ==
    /\ pc[r] = "admission"
    /\ state' = increment_active(state)
    /\ IF Locked(semaphore)
       THEN /\ semaphore' = [semaphore EXCEPT !.waiters = Append(@, r)]
            /\ pc' = [pc EXCEPT ![r] = "waiting"]
       ELSE /\ semaphore' = [semaphore EXCEPT !.value = @ - 1]
            /\ pc' = [pc EXCEPT ![r] = "router"]
    /\ UNCHANGED <<configVars, attempts, last_exc, backend_result, tasks, results,
                   fusion_out, outcome, result, emitted, probe, bus, hooks, stream>>

\* async with self.semaphore: an immediate acquire runs on into increment_active
Acquire(r) ==
    /\ pc[r] = "admission"
    /\ IF Locked(semaphore)
       THEN /\ semaphore' = [semaphore EXCEPT !.waiters = Append(@, r)]
            /\ pc' = [pc EXCEPT ![r] = "waiting"]
            /\ state' = state
       ELSE /\ semaphore' = [semaphore EXCEPT !.value = @ - 1]
            /\ pc' = [pc EXCEPT ![r] = "router"]
            /\ state' = increment_active(state)
    /\ UNCHANGED <<configVars, attempts, last_exc, backend_result, tasks, results,
                   fusion_out, outcome, result, emitted, probe, bus, hooks, stream>>

Resume(r) ==
    /\ pc[r] = "waiting"
    /\ r \in semaphore.woken
    /\ semaphore' = Resumed(semaphore, r)
    /\ pc' = [pc EXCEPT ![r] = "router"]
    /\ state' = increment_active(state)
    /\ UNCHANGED <<configVars, attempts, last_exc, backend_result, tasks, results,
                   fusion_out, outcome, result, emitted, probe, bus, hooks, stream>>

(***************************************************************************)
(* Router.execute and Router._run_backend, inside HybridCore.deliberate    *)
(***************************************************************************)
\* the deliberate whose handler for Exception comes first and wraps the escalation too
DeliberateWrapsAll(out) == IF out.kind = "escalation" THEN Raised(out.reason) ELSE out

\* how HybridCore.deliberate ends for what its body returned or raised: an
\* EscalationRequired is re-raised, any other exception leaves as a HybridCoreError
\* with the same text, a decision is returned
DeliberateEnds(out) == out

\* the execute whose handler for Exception comes first: NoModelAvailable is reported as
\* any other router error
RouterNoModelAsError(r) ==
    /\ pc[r] = "router"
    /\ ~backend.enabled
    /\ emitted' = [emitted EXCEPT ![r] = @ \o <<Trace("router.error"), Trace("hybrid.error")>>]
    /\ outcome' = [outcome EXCEPT ![r] = DeliberateEnds(Raised(NoModelText))]
    /\ pc' = [pc EXCEPT ![r] = "ending"]
    /\ UNCHANGED <<configVars, state, semaphore, attempts, last_exc, backend_result, tasks,
                   results, fusion_out, result, probe, bus, hooks, stream>>

\* the backend is disabled: NoModelAvailable, and the runner is never invoked
RouterNoModel(r) ==
    /\ pc[r] = "router"
    /\ ~backend.enabled
    /\ emitted' = [emitted EXCEPT ![r] =
                      @ \o <<Trace("router.no_model_available"), Trace("hybrid.error")>>]
    /\ outcome' = [outcome EXCEPT ![r] = DeliberateEnds(Raised(NoModelText))]
    /\ pc' = [pc EXCEPT ![r] = "ending"]
    /\ UNCHANGED <<configVars, state, semaphore, attempts, last_exc, backend_result, tasks,
                   results, fusion_out, result, probe, bus, hooks, stream>>

\* range(cfg.max_retries)
AttemptsWithoutFirst(cfg) == cfg.max_retries

\* range(cfg.max_retries + 1)
AttemptsAllowed(cfg) == cfg.max_retries + 1

\* one pass of the retry loop: the runner is invoked under wait_for(cfg.timeout).  A
\* response ends execute and deliberate goes on to create the critic tasks; a failure
\* is recorded and traced, and the failure of the last pass ends execute and deliberate
RunnerAttempt(r) ==
    /\ pc[r] = "router"
    /\ backend.enabled
    /\ attempts[r] < AttemptsAllowed(backend)
    /\ attempts' = [attempts EXCEPT ![r] = @ + 1]
    /\ \E b \in runner :
         IF b.kind = "ok"
         THEN /\ backend_result' = [backend_result EXCEPT ![r] = [embedding |-> b.embedding]]
              /\ tasks' = [tasks EXCEPT ![r] = [c \in DOMAIN critics |-> Pending]]
              /\ pc' = [pc EXCEPT ![r] = "critics"]
              /\ UNCHANGED <<last_exc, emitted, outcome>>
         ELSE LET cause == IF b.kind = "raise" THEN "RunnerError" ELSE "TimeoutError"
              IN  /\ last_exc' = [last_exc EXCEPT ![r] = cause]
                  /\ IF attempts[r] + 1 >= AttemptsAllowed(backend)
                     THEN /\ emitted' = [emitted EXCEPT ![r] =
                                 @ \o <<Trace("router.backend_retry"), Trace("router.error"),
                                        Trace("hybrid.error")>>]
                          /\ outcome' = [outcome EXCEPT ![r] =
                                 DeliberateEnds(Raised(RouterErrorText(cause)))]
                          /\ pc' = [pc EXCEPT ![r] = "ending"]
                     ELSE /\ emitted' = [emitted EXCEPT ![r] =
                                 @ \o <<Trace("router.backend_retry")>>]
                          /\ UNCHANGED <<outcome, pc>>
                  /\ UNCHANGED <<backend_result, tasks>>
    /\ UNCHANGED <<configVars, state, semaphore, results, fusion_out, result, probe, bus, hooks, stream>>

(***************************************************************************)
(* HybridCore._evaluate_critics                                            *)
(***************************************************************************)
\* a critic's evaluate runs in its own task and ends by itself; a task that outlives
\* its decide call is dropped when it ends, its result never retrieved
CriticTask(r, c) ==
    /\ c \in DOMAIN tasks[r]
    /\ tasks[r][c].st = "pending"
    /\ ~tasks[r][c].hung
    /\ \E b \in critics[c] :
         tasks' = [tasks EXCEPT ![r] =
                     IF b.kind = "hang" THEN [@ EXCEPT ![c].hung = TRUE]
                     ELSE IF pc[r] = "done" THEN [d \in DOMAIN @ \ {c} |-> @[d]]
                     ELSE [@ EXCEPT ![c] = [st |-> b.kind, j |-> b.j, hung |-> FALSE]]]
    /\ UNCHANGED <<configVars, state, semaphore, pc, attempts, last_exc, backend_result,
                   results, fusion_out, outcome, result, emitted, probe, bus, hooks, stream>>

\* the task the loop over tasks.items() is awaiting
Awaited(r) ==
    LET left == {i \in 1 .. Len(CriticOrder) :
                    CriticOrder[i] \in DOMAIN critics /\ CriticOrder[i] \notin DOMAIN results[r]}
    IN  CriticOrder[MinOf(left)]

\* the loop that stops at the first judgment it has collected
SomeCollected(r) == DOMAIN results[r] # {}

AllCollected(r) == DOMAIN results[r] = DOMAIN critics

\* the except branch that fails closed: a failed critic is recorded as a violation
CollectedFailClosed(task) ==
    IF task.st = "returned" THEN task.j ELSE [ZeroFilled EXCEPT !.violation = TRUE]

\* results[name] = await task, or the zero-filled judgment when the task raised
Collected(task) == IF task.st = "returned" THEN task.j ELSE ZeroFilled

\* the collection that takes the judgments as they are completed and files each under
\* the next name of the critics dict
AwaitCriticAsCompleted(r) ==
    /\ pc[r] = "critics"
    /\ ~AllCollected(r)
    /\ \E c \in DOMAIN tasks[r] :
          /\ tasks[r][c].st \in {"returned", "raised"}
          /\ results' = [results EXCEPT ![r] = @ @@ (Awaited(r) :> Collected(tasks[r][c]))]
    /\ UNCHANGED <<configVars, state, semaphore, pc, attempts, last_exc, backend_result,
                   tasks, fusion_out, outcome, result, emitted, probe, bus, hooks, stream>>

\* the loop over tasks.items(): the next task in the order of the critics dict is
\* awaited, and its judgment, or the zero-filled one, is filed under its name
AwaitCritic(r) ==
    /\ pc[r] = "critics"
    /\ ~AllCollected(r)
    /\ tasks[r][Awaited(r)].st \in {"returned", "raised"}
    /\ results' = [results EXCEPT ![r] = @ @@ (Awaited(r) :> Collected(tasks[r][Awaited(r)]))]
    /\ UNCHANGED <<configVars, state, semaphore, pc, attempts, last_exc, backend_result,
                   tasks, fusion_out, outcome, result, emitted, probe, bus, hooks, stream>>

(***************************************************************************)
(* fusion and mode gate, inside HybridCore.deliberate                      *)
(***************************************************************************)
\* _evaluate_critics returns the full map and ConsensusFusion.decide runs on it
Fuse(r) ==
    /\ pc[r] = "critics"
    /\ AllCollected(r)
    /\ IF FuseRaises(results[r])
       THEN /\ outcome' = [outcome EXCEPT ![r] = DeliberateEnds(Raised(FusionErrorText))]
            /\ emitted' = [emitted EXCEPT ![r] = @ \o <<Trace("hybrid.error")>>]
            /\ pc' = [pc EXCEPT ![r] = "ending"]
            /\ UNCHANGED fusion_out
       ELSE /\ fusion_out' = [fusion_out EXCEPT ![r] =
                   ConsensusDecide(results[r], backend_result[r].embedding, threshold, storage)]
            /\ emitted' = [emitted EXCEPT ![r] =
                   @ \o ConsensusEvents(results[r], backend_result[r].embedding, threshold, storage)]
            /\ pc' = [pc EXCEPT ![r] = "gate"]
            /\ UNCHANGED outcome
    /\ UNCHANGED <<configVars, state, semaphore, attempts, last_exc, backend_result, tasks,
                   results, result, probe, bus, hooks, stream>>

Gate(r) ==
    /\ pc[r] = "gate"
    /\ outcome' = [outcome EXCEPT ![r] = DeliberateEnds(ApplyMode(mode, fusion_out[r]))]
    /\ emitted' = [emitted EXCEPT ![r] =
           IF ApplyMode(mode, fusion_out[r]).kind = "escalation"
           THEN @ \o <<Trace("hybrid.escalation_forced")>> ELSE @]
    /\ pc' = [pc EXCEPT ![r] = "ending"]
    /\ UNCHANGED <<configVars, state, semaphore, attempts, last_exc, backend_result, tasks,
                   results, fusion_out, result, probe, bus, hooks, stream>>

(***************************************************************************)
(* EleanorRuntime.decide: wait_for, the three ways out, and the exit       *)
(***************************************************************************)
Deliberating == {"router", "critics", "gate", "ending"}

\* decision_timeout fires while deliberate has not ended: wait_for cancels deliberate and
\* raises TimeoutError.  The cancellation reaches the task deliberate is awaiting and no
\* other critic task
Timeout(r) ==
    /\ pc[r] \in Deliberating
    /\ outcome[r].kind # "timeout"
    /\ outcome' = [outcome EXCEPT ![r] = TimedOut]
    /\ pc' = [pc EXCEPT ![r] = "ending"]
    /\ tasks' = [tasks EXCEPT ![r] =
           IF pc[r] = "critics" /\ ~AllCollected(r) /\ @[Awaited(r)].st = "pending"
           THEN [@ EXCEPT ![Awaited(r)].st = "cancelled"] ELSE @]
    /\ UNCHANGED <<configVars, state, semaphore, attempts, last_exc, backend_result, results,
                   fusion_out, result, emitted, probe, bus, hooks, stream>>

\* the completion that announces the result before the hook has fired
CompleteEmitsFirst(r) ==
    /\ pc[r] = "ending"
    /\ outcome[r].kind = "decision"
    /\ state' = complete(state)
    /\ emitted' = [emitted EXCEPT ![r] =
           @ \o <<Did("complete"), Ev("runtime.request.completed"),
                  Fired("after_runtime_step")>>]
    /\ result' = [result EXCEPT ![r] = outcome[r].value]
    /\ pc' = [pc EXCEPT ![r] = "exiting"]
    /\ UNCHANGED <<configVars, semaphore, attempts, last_exc, backend_result, tasks, results,
                   fusion_out, outcome, probe, bus, hooks, stream>>

\* deliberate returned a decision
Complete(r) ==
    /\ pc[r] = "ending"
    /\ outcome[r].kind = "decision"
    /\ state' = complete(state)
    /\ emitted' = [emitted EXCEPT ![r] =
           @ \o <<Did("complete"), Fired("after_runtime_step"),
                  Ev("runtime.request.completed")>>]
    /\ result' = [result EXCEPT ![r] = outcome[r].value]
    /\ pc' = [pc EXCEPT ![r] = "exiting"]
    /\ UNCHANGED <<configVars, semaphore, attempts, last_exc, backend_result, tasks, results,
                   fusion_out, outcome, probe, bus, hooks, stream>>

\* except EscalationRequired
Escalate(r) ==
    /\ pc[r] = "ending"
    /\ outcome[r].kind = "escalation"
    /\ state' = fail(state)
    /\ emitted' = [emitted EXCEPT ![r] =
           @ \o <<Did("fail"), Trace("runtime.escalation"), Ev("runtime.request.escalation")>>]
    /\ result' = [result EXCEPT ![r] =
           [action |-> "escalate", reason |-> outcome[r].reason, id |-> r]]
    /\ pc' = [pc EXCEPT ![r] = "exiting"]
    /\ UNCHANGED <<configVars, semaphore, attempts, last_exc, backend_result, tasks, results,
                   fusion_out, outcome, probe, bus, hooks, stream>>

\* the handler that catches HybridCoreError only: the TimeoutError of wait_for leaves
\* decide and reaches its caller
FailHybridErrorsOnly(r) ==
    /\ pc[r] = "ending"
    /\ outcome[r].kind \in {"error", "timeout"}
    /\ state' = IF outcome[r].kind = "timeout" THEN state ELSE fail(state)
    /\ emitted' = [emitted EXCEPT ![r] =
           IF outcome[r].kind = "timeout" THEN @
           ELSE @ \o <<Did("fail"), Trace("runtime.error"), Ev("runtime.request.error")>>]
    /\ result' = [result EXCEPT ![r] =
           IF outcome[r].kind = "timeout" THEN [exception |-> "TimeoutError"]
           ELSE [action |-> "error", error |-> outcome[r].error, id |-> r]]
    /\ pc' = [pc EXCEPT ![r] = "exiting"]
    /\ UNCHANGED <<configVars, semaphore, attempts, last_exc, backend_result, tasks, results,
                   fusion_out, outcome, probe, bus, hooks, stream>>

\* except Exception: a HybridCoreError, or the TimeoutError of wait_for
Fail(r) ==
    /\ pc[r] = "ending"
    /\ outcome[r].kind \in {"error", "timeout"}
    /\ state' = fail(state)
    /\ emitted' = [emitted EXCEPT ![r] =
           @ \o <<Did("fail"), Trace("runtime.error"), Ev("runtime.request.error")>>]
    /\ result' = [result EXCEPT ![r] =
           [action |-> "error",
            error  |-> IF outcome[r].kind = "timeout" THEN TimeoutText ELSE outcome[r].error,
            id     |-> r]]
    /\ pc' = [pc EXCEPT ![r] = "exiting"]
    /\ UNCHANGED <<configVars, semaphore, attempts, last_exc, backend_result, tasks, results,
                   fusion_out, outcome, probe, bus, hooks, stream>>

\* the exit that gives the permit back only after a call that did not fail
ExitKeepsPermitOnFailure(r) ==
    /\ pc[r] = "exiting"
    /\ state' = decrement_active(state)
    /\ semaphore' = IF result[r].action = "error" THEN semaphore ELSE Release(semaphore)
    /\ pc' = [pc EXCEPT ![r] = "done"]
    /\ tasks' = [tasks EXCEPT ![r] =
           [c \in {d \in DOMAIN @ : @[d].st = "pending"} |-> @[c]]]
    /\ attempts' = [attempts EXCEPT ![r] = 0]
    /\ last_exc' = [last_exc EXCEPT ![r] = "None"]
    /\ backend_result' = [backend_result EXCEPT ![r] = NoValue]
    /\ results' = [results EXCEPT ![r] = Empty]
    /\ fusion_out' = [fusion_out EXCEPT ![r] = NoValue]
    /\ outcome' = [outcome EXCEPT ![r] = NoValue]
    /\ UNCHANGED <<configVars, result, emitted, probe, bus, hooks, stream>>

\* finally: decrement_active, then the semaphore is released and decide returns; the
\* frames of the call are gone, the critic tasks still running are not
Exit(r) ==
    /\ pc[r] = "exiting"
    /\ state' = decrement_active(state)
    /\ semaphore' = Release(semaphore)
    /\ pc' = [pc EXCEPT ![r] = "done"]
    /\ tasks' = [tasks EXCEPT ![r] =
           [c \in {d \in DOMAIN @ : @[d].st = "pending"} |-> @[c]]]
    /\ attempts' = [attempts EXCEPT ![r] = 0]
    /\ last_exc' = [last_exc EXCEPT ![r] = "None"]
    /\ backend_result' = [backend_result EXCEPT ![r] = NoValue]
    /\ results' = [results EXCEPT ![r] = Empty]
    /\ fusion_out' = [fusion_out EXCEPT ![r] = NoValue]
    /\ outcome' = [outcome EXCEPT ![r] = NoValue]
    /\ UNCHANGED <<configVars, result, emitted, probe, bus, hooks, stream>>

(***************************************************************************)
(* Spec: one decide call through a runtime built by bootstrap_runtime,     *)
(* over every mode, with critics and a runner that may fail or hang.       *)
(***************************************************************************)
\* RuntimeConfig.max_concurrent_tasks
DefaultMaxConcurrentTasks == 10

\* decision_timeout settings, in seconds; 20 is the default
DecisionTimeouts == {15, 20, 30}

\* what the rights critic may return: either score, either verdict
RightsJudgments == {Judgment(s, 9, v) : s \in {1, 9}, v \in BOOLEAN}

\* what the risk critic may return: scores that agree or disagree with the rights
\* critic's, a low confidence, a violation flag, and a score that is no number
RiskJudgments ==
    {Judgment(1, 9, FALSE), Judgment(9, 9, FALSE), Judgment(9, 2, FALSE), Judgment(1, 2, TRUE),
     Garbled(FALSE)}

FullCritics ==
    [rights |-> {Returns(j) : j \in RightsJudgments} \cup {Raises, Hangs},
     risk   |-> {Returns(j) : j \in RiskJudgments} \cup {Raises, Hangs}]

FullRunner == {Responds(FALSE), Responds(TRUE), RunnerRaises, RunnerHangs}

RuntimeConfig(m, t, n) == [mode |-> m, max_concurrent_tasks |-> n, decision_timeout |-> t]

ModelBackendConfig(en, mr) == [enabled |-> en, max_retries |-> mr]

\* the configurations of Spec: every mode, timeout and store behind a backend without
\* retries, and every backend configuration behind the default runtime configuration
Init ==
    /\ \/ \E m \in ModeNames, t \in DecisionTimeouts, store \in {"none", "ok", "raises"} :
            Bootstrap(RuntimeConfig(m, t, DefaultMaxConcurrentTasks),
                      ModelBackendConfig(TRUE, 0), FullRunner, FullCritics, store, {1})
       \/ \E en \in BOOLEAN, mr \in 0 .. MaxRetries :
            Bootstrap(RuntimeConfig("balanced", 20, DefaultMaxConcurrentTasks),
                      ModelBackendConfig(en, mr), FullRunner, FullCritics, "none", {1})
    /\ probe = NoValue

Next ==
    \E r \in Requests :
        \/ Decide(r)
        \/ Acquire(r)
        \/ RouterNoModel(r)
        \/ RunnerAttempt(r)
        \/ \E c \in DOMAIN critics : CriticTask(r, c)
        \/ AwaitCritic(r)
        \/ Fuse(r)
        \/ Gate(r)
        \/ Timeout(r)
        \/ Complete(r)
        \/ Escalate(r)
        \/ Fail(r)
        \/ Exit(r)

Spec == Init /\ [][Next]_vars

(***************************************************************************)
(* Claims about one decide call (Spec)                                     *)
(***************************************************************************)
Actions == {"proceed", "escalate", "reject", "advice", "error"}

Count(seq, e) == Cardinality({i \in 1 .. Len(seq) : seq[i] = e})

Last(seq) == seq[Len(seq)]

RouterErrorTexts == {RouterErrorText(c) : c \in {"RunnerError", "TimeoutError", "None"}}

\* C1: however deliberate ends, decide handles it and returns an envelope with an action
\* field; nothing deliberate returns or raises is left for the caller of decide.
C1_DecideNeverRaises ==
    \A r \in Requests :
        /\ pc[r] = "ending" =>
              outcome[r].kind \in {"decision", "escalation", "error", "timeout"}
        /\ pc[r] \in {"exiting", "done"} =>
              /\ "action" \in DOMAIN result[r]
              /\ result[r].action \in Actions

\* decide has returned the envelope of a deliberation that ended in a fusion error
C1_Witness ==
    \E r \in Requests :
        /\ pc[r] = "done"
        /\ result[r].action = "error"
        /\ result[r].error = FusionErrorText

\* C4: when the rights critic returned violation = TRUE and the mode enforces the lex
\* rule, a deliberation that decision_timeout does not cut short makes decide return
\* action "reject" with reason "rights_violation" and a fusion outcome with lex_block,
\* whatever the other critics returned.
C4_LexPrecedence ==
    \A r \in Requests :
        (/\ pc[r] = "exiting"
         /\ outcome[r].kind # "timeout"
         /\ "rights" \in DOMAIN results[r]
         /\ results[r]["rights"].violation
         /\ mode.enforce_lex)
        => /\ result[r].action = "reject"
           /\ "reason" \in DOMAIN result[r]
           /\ result[r].reason = "rights_violation"
           /\ result[r].fusion.lex_block

\* a rights violation is rejected next to a risk judgment whose score is no number
C4_Witness ==
    \E r \in Requests :
        /\ pc[r] = "exiting"
        /\ DOMAIN results[r] = {"rights", "risk"}
        /\ results[r]["rights"].violation
        /\ results[r]["risk"] = Garbled(FALSE)
        /\ mode.name = "balanced"
        /\ result[r].action = "reject"

\* C5: in the fan-out a critic that raised is recorded as the zero-filled judgment, a
\* critic that returned is recorded with exactly the judgment it returned, no critic task
\* is cancelled unless decision_timeout fired, and fusion runs on the full map.
C5_CriticIsolation ==
    \A r \in Requests :
        /\ \A c \in DOMAIN results[r] :
              /\ tasks[r][c].st \in {"returned", "raised"}
              /\ tasks[r][c].st = "raised" => results[r][c] = ZeroFilled
              /\ tasks[r][c].st = "returned" => results[r][c] = tasks[r][c].j
        /\ \A c \in DOMAIN tasks[r] :
              tasks[r][c].st = "cancelled" => outcome[r].kind = "timeout"
        /\ pc[r] = "gate" => DOMAIN results[r] = DOMAIN critics

\* fusion has run on a map in which the rights critic failed and the risk critic's
\* violation judgment is kept as returned
C5_Witness ==
    \E r \in Requests :
        /\ pc[r] = "gate"
        /\ DOMAIN results[r] = {"rights", "risk"}
        /\ tasks[r]["rights"].st = "raised"
        /\ results[r]["rights"] = ZeroFilled
        /\ results[r]["risk"] = Judgment(1, 2, TRUE)

Retries(r) == Count(emitted[r], Trace("router.backend_retry"))

\* C6: the runner is invoked at most max_retries + 1 times; a response after K failures is
\* returned after exactly K + 1 invocations; max_retries + 1 failures end execute with a
\* router error that carries the last cause, and only they do.
C6_RouterRetries ==
    \A r \in Requests :
        /\ attempts[r] <= backend.max_retries + 1
        /\ backend_result[r] # NoValue =>
              /\ attempts[r] = Retries(r) + 1
              /\ Retries(r) <= backend.max_retries
        /\ (pc[r] = "ending" /\ outcome[r].kind = "error" /\ outcome[r].error \in RouterErrorTexts) =>
              /\ attempts[r] = backend.max_retries + 1
              /\ Retries(r) = backend.max_retries + 1
              /\ last_exc[r] # "None"
              /\ outcome[r].error = RouterErrorText(last_exc[r])
              /\ backend_result[r] = NoValue
        /\ (pc[r] = "router" /\ backend.enabled) => Retries(r) = attempts[r]
        /\ (pc[r] = "router" /\ backend.enabled) => attempts[r] <= backend.max_retries

\* two failures, the second a timeout, and then a response, under max_retries = 2
C6_Witness ==
    \E r \in Requests :
        /\ backend.max_retries = 2
        /\ attempts[r] = 3
        /\ Retries(r) = 2
        /\ last_exc[r] = "TimeoutError"
        /\ backend_result[r] # NoValue

\* C7: when decision_timeout fires on a critic that never returns, decide returns an
\* envelope of action "error" that holds no judgment; failed_tasks is 1 and
\* completed_tasks 0 for the one call, runtime.request.error is the event emitted, and
\* the permit is back once decide has returned.
C7_TimeoutEnvelope ==
    \A r \in Requests :
        /\ (pc[r] = "critics" /\ ~AllCollected(r) /\ tasks[r][Awaited(r)].hung) =>
              ENABLED Timeout(r)
        /\ (pc[r] = "exiting" /\ outcome[r].kind = "timeout") =>
              /\ result[r] = [action |-> "error", error |-> TimeoutText, id |-> r]
              /\ state.failed_tasks = 1
              /\ state.completed_tasks = 0
              /\ Last(emitted[r]) = Ev("runtime.request.error")
              /\ Count(emitted[r], Ev("runtime.request.completed")) = 0
              /\ Count(emitted[r], Ev("runtime.request.escalation")) = 0
        /\ (pc[r] = "done" /\ result[r].action = "error") =>
              /\ semaphore.value = config.max_concurrent_tasks
              /\ state.active_tasks = 0
              /\ state.failed_tasks = 1
              /\ state.completed_tasks = 0

\* the rights critic has returned a judgment, the risk critic hangs and was cancelled
\* by the timeout, and decide is about to return
C7_Witness ==
    \E r \in Requests :
        /\ pc[r] = "exiting"
        /\ outcome[r].kind = "timeout"
        /\ "rights" \in DOMAIN results[r]
        /\ "risk" \in DOMAIN tasks[r]
        /\ tasks[r]["risk"].st = "cancelled"
        /\ tasks[r]["risk"].hung

\* C8: a fusion result of action "escalate" under a mode with auto_escalate, without lex
\* enforcement on a lex block and without advisory_only, leaves deliberate as the
\* escalation signal and not as a hybrid core error; decide then returns {action
\* "escalate", reason, id}, counts the call as failed and emits the escalation event.
C8_EscalationPath ==
    \A r \in Requests :
        /\ (/\ pc[r] \in {"ending", "exiting"}
            /\ fusion_out[r] # NoValue
            /\ fusion_out[r].action = "escalate"
            /\ mode.auto_escalate
            /\ ~mode.advisory_only
            /\ outcome[r].kind # "timeout")
           => /\ outcome[r].kind = "escalation"
              /\ Count(emitted[r], Trace("hybrid.error")) = 0
        /\ (pc[r] = "exiting" /\ outcome[r].kind = "escalation") =>
              /\ result[r] = [action |-> "escalate",
                              reason |-> "Uncertainty threshold exceeded.", id |-> r]
              /\ state.failed_tasks = 1
              /\ state.completed_tasks = 0
              /\ Count(emitted[r], Ev("runtime.request.escalation")) = 1
              /\ Count(emitted[r], Ev("runtime.request.completed")) = 0
              /\ Count(emitted[r], Ev("runtime.request.error")) = 0

\* decide is about to return the escalation of a fusion result that escalated
C8_Witness ==
    \E r \in Requests :
        /\ pc[r] = "exiting"
        /\ fusion_out[r] # NoValue
        /\ fusion_out[r].action = "escalate"
        /\ result[r].action = "escalate"
        /\ state.failed_tasks = 1

\* C11: in a runtime that bootstrap_runtime assembled with one of the modes strict,
\* balanced, permissive, appliance or distributed, a fusion result without lex block has
\* action "escalate" exactly when its uncertainty is >= the mode's uncertainty_threshold.
C11_EscalatesAtModeThreshold ==
    \A r \in Requests :
        (/\ fusion_out[r] # NoValue
         /\ ~fusion_out[r].lex_block
         /\ mode.name # "advisory")
        => (fusion_out[r].action = "escalate"
              <=> FracGeq(fusion_out[r].uncertainty, mode.uncertainty_threshold))

\* C12: precedent retrieval never fails the deliberation: without a storage backend,
\* without a vector, or with a store whose search raises, ConsensusFusion.decide returns
\* a decision with precedent [] and with the action, confidence and uncertainty a
\* working store gives; a deliberation that ends in an error ended before fusion returned.
C12_PrecedentNeverFails ==
    \A r \in Requests :
        /\ fusion_out[r] # NoValue =>
              LET working == ConsensusDecide(results[r], TRUE, threshold, "ok")
              IN  /\ (storage \in {"none", "raises"} \/ ~backend_result[r].embedding) =>
                        fusion_out[r].precedent = <<>>
                  /\ fusion_out[r].action = working.action
                  /\ fusion_out[r].confidence = working.confidence
                  /\ fusion_out[r].uncertainty = working.uncertainty
        /\ (pc[r] = "ending" /\ outcome[r].kind = "error") =>
              /\ fusion_out[r] = NoValue
              /\ outcome[r].error \in {NoModelText, FusionErrorText} \cup RouterErrorTexts

\* the store was searched with a vector and raised, and fusion returned an escalation
\* with no precedent
C12_Witness ==
    \E r \in Requests :
        /\ storage = "raises"
        /\ fusion_out[r] # NoValue
        /\ backend_result[r].embedding
        /\ Count(emitted[r], Trace("precedent.error")) = 1
        /\ fusion_out[r].action = "escalate"
        /\ fusion_out[r].precedent = <<>>

\* C13: with the selected backend disabled, Router.execute invokes the runner not once,
\* fails with no-model-available, and emits router.no_model_available once and neither
\* router.backend_retry nor router.error.
C13_DisabledBackend ==
    \A r \in Requests :
        ~backend.enabled =>
            /\ attempts[r] = 0
            /\ backend_result[r] = NoValue
            /\ Count(emitted[r], Trace("router.backend_retry")) = 0
            /\ Count(emitted[r], Trace("router.error")) = 0
            /\ (pc[r] = "ending" /\ outcome[r].kind = "error") =>
                  /\ outcome[r].error = NoModelText
                  /\ Count(emitted[r], Trace("router.no_model_available")) = 1
            /\ pc[r] = "router" => ENABLED RouterNoModel(r)
            /\ pc[r] \notin {"critics", "gate"}

\* execute has failed on a disabled backend that is configured with retries
C13_Witness ==
    \E r \in Requests :
        /\ ~backend.enabled
        /\ backend.max_retries = 2
        /\ pc[r] = "ending"
        /\ outcome[r] = Raised(NoModelText)
        /\ Count(emitted[r], Trace("router.no_model_available")) = 1

\* C16: under the advisory mode a deliberation never ends in the escalation signal, a
\* deliberation that got a fusion result and was not timed out returns action "advice"
\* around that result, also when the result is a lex block or an escalation, and decide
\* returns "advice" or, after an internal error, "error".
C16_AdvisoryNeverBlocks ==
    \A r \in Requests :
        mode.name = "advisory" =>
            /\ pc[r] \in {"ending", "exiting"} => outcome[r].kind # "escalation"
            /\ (pc[r] \in {"ending", "exiting"} /\ fusion_out[r] # NoValue
                  /\ outcome[r].kind # "timeout") =>
                  outcome[r] = Returned([action |-> "advice", fusion |-> fusion_out[r]])
            /\ pc[r] = "exiting" => result[r].action \in {"advice", "error"}
            /\ (pc[r] = "exiting" /\ outcome[r].kind = "decision") =>
                  result[r] = outcome[r].value

\* decide is about to return advice around the rejection of a rights violation
C16_Witness ==
    \E r \in Requests :
        /\ mode.name = "advisory"
        /\ pc[r] = "exiting"
        /\ result[r].action = "advice"
        /\ result[r].fusion.lex_block
        /\ result[r].fusion.action = "reject"

\* C17: router.backend_retry is emitted once for each failed attempt that is followed by
\* another attempt and not for the last failed attempt of an exhausted sequence, which
\* router.error reports; a response after failures comes with one router.backend_retry
\* per failure and no router.error.
C17_RetryPerNonTerminalFailure ==
    \A r \in Requests :
        /\ backend_result[r] # NoValue =>
              /\ Retries(r) = attempts[r] - 1
              /\ Count(emitted[r], Trace("router.error")) = 0
        /\ (pc[r] = "ending" /\ outcome[r].kind = "error"
              /\ outcome[r].error \in RouterErrorTexts) =>
              /\ Retries(r) = attempts[r] - 1
              /\ Count(emitted[r], Trace("router.error")) = 1

\* C21: once decide has returned the error envelope of a decision_timeout that fired
\* during the critic fan-out, every critic task of the request has been cancelled: none
\* is still running or has yet to complete.
C21_TimeoutCancelsCritics ==
    \A r \in Requests :
        (pc[r] = "done" /\ result[r].action = "error" /\ result[r].error = TimeoutText) =>
            \A c \in DOMAIN tasks[r] : tasks[r][c].st # "pending"

\* the conditions the router, the fusion engine and the hybrid core report
TraceConditions ==
    {"router.backend_retry", "router.no_model_available", "router.error", "precedent.error",
     "fusion.escalate", "hybrid.error", "hybrid.escalation_forced"}

\* C22: each of the conditions router.backend_retry, router.no_model_available,
\* router.error, precedent.error, fusion.escalate, hybrid.error and
\* hybrid.escalation_forced is published on the bus under its own name, the name broadcast
\* looks the listeners up by, as the runtime.request.* events are.
C22_TracesPublishedByName ==
    \A r \in Requests :
        \A i \in 1 .. Len(emitted[r]) :
            emitted[r][i].message \in TraceConditions =>
                emitted[r][i].name = emitted[r][i].message

\* C24: when critic fusion reports lex_block, ConsensusFusion.decide returns action
\* "reject" with confidence 1.0, uncertainty 0.0, lex_block true and precedent [] at
\* once: the deliberation has no precedent.error of a queried store, no uncertainty.score
\* metric of a computed uncertainty and no fusion.escalate.
C24_LexBlockReturnsAtOnce ==
    \A r \in Requests :
        (fusion_out[r] # NoValue /\ CriticFuse(results[r]).lex_block) =>
            /\ fusion_out[r].action = "reject"
            /\ fusion_out[r].confidence = <<1, 1>>
            /\ fusion_out[r].uncertainty = <<0, 1>>
            /\ fusion_out[r].lex_block
            /\ fusion_out[r].precedent = <<>>
            /\ Count(emitted[r], Trace("precedent.error")) = 0
            /\ Count(emitted[r], Metric("uncertainty.score")) = 0
            /\ Count(emitted[r], Trace("fusion.escalate")) = 0

\* fusion has rejected a rights violation where the backend gave a vector, the store's
\* search raises and the risk critic's low confidence would have escalated
C24_Witness ==
    \E r \in Requests :
        /\ pc[r] = "gate"
        /\ storage = "raises"
        /\ backend_result[r].embedding
        /\ DOMAIN results[r] = {"rights", "risk"}
        /\ results[r]["rights"].violation
        /\ results[r]["risk"] = Judgment(9, 2, FALSE)
        /\ UncertaintyCompute(results[r], threshold).escalate
        /\ fusion_out[r].lex_block

\* what decide does before it asks for a permit
Opening == <<Did("log_request"), Ev("runtime.request.received"), Fired("before_runtime_step")>>

\* the entries of the log from position n on
From(seq, n) == SubSeq(seq, n, Len(seq))

\* the number of terminal events in a log
Terminals(seq) ==
    Count(seq, Ev("runtime.request.completed")) + Count(seq, Ev("runtime.request.escalation"))
    + Count(seq, Ev("runtime.request.error"))

\* the envelopes decide builds itself, told by their fields
IsErrorEnvelope(res) == DOMAIN res = {"action", "error", "id"}

IsEscalationEnvelope(res) == DOMAIN res = {"action", "reason", "id"}

\* the part of C26 that does not depend on how the terminal event is matched
DecideProtocol(r) ==
    /\ pc[r] # "idle" =>
          /\ r \in state.request_log
          /\ Len(emitted[r]) >= 3
          /\ SubSeq(emitted[r], 1, 3) = Opening
          /\ Count(emitted[r], Did("log_request")) = 1
          /\ Count(emitted[r], Ev("runtime.request.received")) = 1
          /\ Count(emitted[r], Fired("before_runtime_step")) = 1
    /\ pc[r] = "admission" =>
          /\ emitted[r] = Opening
          /\ semaphore.value = config.max_concurrent_tasks
          /\ state.active_tasks = 0
    /\ pc[r] \in {"admission", "waiting"} \cup Deliberating =>
          /\ Terminals(emitted[r]) = 0
          /\ Count(emitted[r], Did("complete")) + Count(emitted[r], Did("fail")) = 0
          /\ Count(emitted[r], Fired("after_runtime_step")) = 0
          /\ state.completed_tasks + state.failed_tasks = 0
    /\ pc[r] \in {"exiting", "done"} =>
          /\ Terminals(emitted[r]) = 1
          /\ Count(emitted[r], Did("complete")) + Count(emitted[r], Did("fail")) = 1
          /\ state.completed_tasks = Count(emitted[r], Did("complete"))
          /\ state.failed_tasks = Count(emitted[r], Did("fail"))
          /\ Count(emitted[r], Fired("after_runtime_step"))
                = Count(emitted[r], Ev("runtime.request.completed"))
          /\ Count(emitted[r], Ev("runtime.request.completed")) = 1 =>
                From(emitted[r], Len(emitted[r]) - 2)
                   = <<Did("complete"), Fired("after_runtime_step"),
                       Ev("runtime.request.completed")>>

\* C26 as stated: every decide call logs the request, emits runtime.request.received and
\* fires before_runtime_step once, before it asks for a permit; it ends with exactly one
\* of runtime.request.completed / escalation / error and one increment of completed_tasks
\* or failed_tasks, the event and the counter being those of the returned action:
\* escalation and failed_tasks for "escalate", error and failed_tasks for "error",
\* completed and completed_tasks for any other; after_runtime_step fires only on
\* completion, after the increment and before the event.
C26_DecideProtocolByAction ==
    \A r \in Requests :
        /\ DecideProtocol(r)
        /\ pc[r] \in {"exiting", "done"} =>
              /\ result[r].action = "error" <=>
                    Count(emitted[r], Ev("runtime.request.error")) = 1
              /\ result[r].action = "escalate" <=>
                    Count(emitted[r], Ev("runtime.request.escalation")) = 1
              /\ result[r].action \in {"error", "escalate"} <=> state.failed_tasks = 1

\* C26 with the terminal event matched to the way deliberate ended: the event and the
\* counter are escalation and failed_tasks when decide returns the escalation envelope
\* {action, reason, id} of the escalation signal, error and failed_tasks when it returns
\* the error envelope {action, error, id}, and completed and completed_tasks when it
\* returns the decision deliberate returned, whatever that decision's action is.
C26_DecideProtocol ==
    \A r \in Requests :
        /\ DecideProtocol(r)
        /\ pc[r] \in {"exiting", "done"} =>
              /\ IsErrorEnvelope(result[r]) <=>
                    Count(emitted[r], Ev("runtime.request.error")) = 1
              /\ IsEscalationEnvelope(result[r]) <=>
                    Count(emitted[r], Ev("runtime.request.escalation")) = 1
              /\ (IsErrorEnvelope(result[r]) \/ IsEscalationEnvelope(result[r])) <=>
                    state.failed_tasks = 1
              /\ IsErrorEnvelope(result[r]) => result[r].action = "error"
              /\ IsEscalationEnvelope(result[r]) => result[r].action = "escalate"

\* decide has returned, as a completed request, a fusion result of action "escalate"
\* that a mode without auto_escalate let through
C26_Witness ==
    \E r \in Requests :
        /\ pc[r] = "done"
        /\ ~mode.auto_escalate
        /\ result[r].action = "escalate"
        /\ Last(emitted[r]) = Ev("runtime.request.completed")
        /\ state.completed_tasks = 1
        /\ state.failed_tasks = 0

\* C27: within one deliberate call no critic task exists before Router.execute has
\* returned a response; fusion has run only on a map in which every configured critic's
\* task has returned or raised; the mode gate runs only on a fusion result; and after a
\* router failure no critic task was created and fusion was not run.
C27_DeliberateOrder ==
    \A r \in Requests :
        /\ pc[r] \in {"idle", "admission", "waiting", "router"} =>
              /\ tasks[r] = Empty
              /\ results[r] = Empty
              /\ fusion_out[r] = NoValue
        /\ (pc[r] \in Deliberating /\ tasks[r] # Empty) => backend_result[r] # NoValue
        /\ (fusion_out[r] # NoValue
              \/ (pc[r] = "ending" /\ outcome[r] = Raised(FusionErrorText))) =>
              /\ DOMAIN results[r] = DOMAIN critics
              /\ \A c \in DOMAIN critics : tasks[r][c].st \in {"returned", "raised"}
        /\ pc[r] = "gate" => fusion_out[r] # NoValue
        /\ (pc[r] = "ending" /\ outcome[r].kind \in {"decision", "escalation"}) =>
              fusion_out[r] # NoValue
        /\ (pc[r] = "ending" /\ outcome[r].kind = "error"
              /\ outcome[r].error \in {NoModelText} \cup RouterErrorTexts) =>
              /\ backend_result[r] = NoValue
              /\ tasks[r] = Empty
              /\ results[r] = Empty
              /\ fusion_out[r] = NoValue
              /\ Count(emitted[r], Metric("uncertainty.score")) = 0

\* deliberate has returned a decision: the router answered on its third attempt, the
\* rights critic failed, the risk critic returned, and fusion and gate ran after them
C27_Witness ==
    \E r \in Requests :
        /\ pc[r] = "ending"
        /\ outcome[r].kind = "decision"
        /\ attempts[r] = 3
        /\ backend_result[r] # NoValue
        /\ DOMAIN tasks[r] = {"rights", "risk"}
        /\ tasks[r]["rights"].st = "raised"
        /\ tasks[r]["risk"].st = "returned"
        /\ fusion_out[r] # NoValue

\* the judgment each configured critic's task ended with, by critic name
Outputs(r) == [c \in DOMAIN critics |-> Collected(tasks[r][c])]

\* C28: in whatever order the critic tasks complete or fail, the fan-out result holds
\* entries for configured critic names only and, once complete, exactly the judgment of
\* each configured critic under its name; the fused decision is the one fusion computes
\* from the critics' outputs by name, hence the same for every completion order.
C28_OrderNotObservable ==
    \A r \in Requests :
        /\ DOMAIN results[r] \subseteq DOMAIN critics
        /\ fusion_out[r] # NoValue =>
              LET fused == ConsensusDecide(Outputs(r), backend_result[r].embedding,
                                           threshold, storage)
              IN  /\ DOMAIN results[r] = DOMAIN critics
                  /\ results[r] = Outputs(r)
                  /\ fusion_out[r].action = fused.action
                  /\ fusion_out[r].confidence = fused.confidence
                  /\ fusion_out[r].uncertainty = fused.uncertainty
                  /\ fusion_out[r].lex_block = fused.lex_block

\* the risk critic, second in the critics dict, has completed with a violation while the
\* rights critic, which the loop awaits first, is still running
C28_Witness ==
    \E r \in Requests :
        /\ pc[r] = "critics"
        /\ results[r] = Empty
        /\ DOMAIN tasks[r] = {"rights", "risk"}
        /\ tasks[r]["rights"].st = "pending"
        /\ tasks[r]["risk"].st = "returned"
        /\ tasks[r]["risk"].j = Judgment(1, 2, TRUE)

\* C36: when the deliberation is ended by decision_timeout, the envelope decide returns
\* names the cause: its error value is "timeout", which no other failure's envelope has.
C36_TimeoutNamed ==
    \A r \in Requests :
        /\ (pc[r] = "exiting" /\ outcome[r].kind = "timeout") =>
              /\ result[r].action = "error"
              /\ result[r].error = "timeout"
        /\ (pc[r] = "exiting" /\ outcome[r].kind = "error") =>
              result[r].error # "timeout"

\* the rights critic's evaluate raised in the fan-out of call r
RightsRaised(r) == "rights" \in DOMAIN tasks[r] /\ tasks[r]["rights"].st = "raised"

\* C39: when the rights critic's evaluate raises, the judgment filed for it is the
\* zero-filled one, without a violation; the fusion does not block, its action follows
\* the uncertainty and its confidence is the weighted score of the judgment map, and the
\* call does not end with action "reject".
C39_RaisedRightsNeverRejects ==
    \A r \in Requests :
        (RightsRaised(r) /\ pc[r] \in Deliberating \cup {"exiting"}) =>
            /\ "rights" \in DOMAIN results[r] => results[r]["rights"] = ZeroFilled
            /\ fusion_out[r] # NoValue =>
                  /\ ~fusion_out[r].lex_block
                  /\ fusion_out[r].action =
                        IF UncertaintyCompute(results[r], threshold).escalate
                        THEN "escalate" ELSE "proceed"
                  /\ fusion_out[r].confidence =
                        <<SumOver([c \in DOMAIN results[r] |-> Weight(c) * results[r][c].score],
                                  DOMAIN results[r]), 1000>>
            /\ pc[r] = "exiting" => result[r].action # "reject"

\* the rights critic raised, the risk critic reported a violation with low confidence,
\* and the call is about to return the fusion's decision, which is not a rejection
C39_Witness ==
    \E r \in Requests :
        /\ RightsRaised(r)
        /\ pc[r] = "exiting"
        /\ outcome[r].kind = "decision"
        /\ DOMAIN results[r] = {"rights", "risk"}
        /\ results[r]["rights"] = ZeroFilled
        /\ results[r]["risk"] = Judgment(1, 2, TRUE)
        /\ result[r].action \in {"proceed", "escalate"}

\* C40: in a mode with neither enforce_lex nor advisory_only a rights violation makes
\* decide return the fusion result itself, with action "reject" and lex_block true and
\* without a reason field, and count the call as completed; and in every mode a decision
\* of action "reject" is one of a lex block.
C40_RejectOnlyOnLexBlock ==
    \A r \in Requests :
        /\ (/\ pc[r] = "exiting"
            /\ ~mode.enforce_lex /\ ~mode.advisory_only
            /\ outcome[r].kind # "timeout"
            /\ "rights" \in DOMAIN results[r]
            /\ results[r]["rights"].violation) =>
              /\ result[r] = fusion_out[r]
              /\ result[r].action = "reject"
              /\ result[r].lex_block
              /\ "reason" \notin DOMAIN result[r]
              /\ state.completed_tasks = 1
              /\ state.failed_tasks = 0
        /\ (pc[r] \in {"exiting", "done"} /\ result[r].action = "reject") =>
              IF "fusion" \in DOMAIN result[r]
              THEN result[r].fusion.lex_block
              ELSE result[r].lex_block

\* the permissive mode has returned the fusion's rejection of a rights violation
C40_Witness ==
    \E r \in Requests :
        /\ pc[r] = "exiting"
        /\ mode.name = "permissive"
        /\ "rights" \in DOMAIN results[r]
        /\ results[r]["rights"].violation
        /\ result[r].action = "reject"
        /\ "reason" \notin DOMAIN result[r]
        /\ result[r].lex_block
        /\ state.completed_tasks = 1

(***************************************************************************)
(* SpecLoad: NumRequests concurrent decide calls against the two permits   *)
(* of max_concurrent_tasks = 2; the calls end normally, by escalation, by  *)
(* error or by timeout.                                                    *)
(* FairLoad adds the scheduling of the event loop: a task that can run is  *)
(* run, and a timer that is due fires.                                     *)
(***************************************************************************)
\* one critic, which is confident, is not (uncertainty 0.3, over the threshold 15/60 that
\* bootstrap_runtime derives), or hangs
LoadCritics ==
    [risk |-> {Returns(Judgment(9, 9, FALSE)), Returns(Judgment(9, 2, FALSE)), Hangs}]

LoadRunner == {Responds(FALSE), RunnerRaises}

InitLoad ==
    /\ \E en \in BOOLEAN :
         Bootstrap(RuntimeConfig("balanced", 15, 2), ModelBackendConfig(en, 0),
                   LoadRunner, LoadCritics, "none", Requests)
    /\ probe = NoValue

\* the steps of one decide call
RequestStep(r) ==
    \/ Decide(r)
    \/ Acquire(r)
    \/ Resume(r)
    \/ RouterNoModel(r)
    \/ RunnerAttempt(r)
    \/ AwaitCritic(r)
    \/ Fuse(r)
    \/ Gate(r)
    \/ Timeout(r)
    \/ Complete(r)
    \/ Escalate(r)
    \/ Fail(r)
    \/ Exit(r)

NextLoad ==
    \E r \in Requests :
        \/ RequestStep(r)
        \/ \E c \in DOMAIN critics : CriticTask(r, c)

SpecLoad == InitLoad /\ [][NextLoad]_vars

FairLoad ==
    /\ SpecLoad
    /\ \A r \in Requests : WF_vars(RequestStep(r))
    /\ \A r \in Requests : WF_vars(CriticTask(r, "risk"))

(***************************************************************************)
(* Claims about admission (SpecLoad, FairLoad)                             *)
(***************************************************************************)
Sleeping == {r \in Requests : pc[r] = "waiting" /\ r \notin semaphore.woken}

AllReturned == \A r \in callers : pc[r] = "done"

\* C2: in every reachable state, whatever the number of concurrent decide calls and
\* however they end, active_tasks is at most max_concurrent_tasks.
C2_ConcurrencyCap == state.active_tasks <= config.max_concurrent_tasks

\* every permit is in use by a counted call, one of them an escalation that is about to
\* return, while another call waits
C2_Witness ==
    /\ state.active_tasks = config.max_concurrent_tasks
    /\ \E r \in Requests : pc[r] = "waiting"
    /\ \E r \in Requests : pc[r] = "exiting" /\ result[r].action = "escalate"

\* C3: calls beyond max_concurrent_tasks wait and none is rejected: while a call sleeps
\* in the queue either no permit is free or a call that was handed one has yet to resume
\* (and wakes the next when it does), every waiting call is admitted and returns, and
\* once all calls have returned each of them has been counted as completed or failed,
\* active_tasks is 0 and every permit is back.
C3_OverloadDrains ==
    /\ [](Sleeping # {} => (semaphore.value = 0 \/ semaphore.woken # {}))
    /\ [](AllReturned =>
            /\ state.active_tasks = 0
            /\ semaphore.value = config.max_concurrent_tasks
            /\ semaphore.waiters = <<>>
            /\ state.completed_tasks + state.failed_tasks = Cardinality(callers))
    /\ \A r \in Requests : (pc[r] = "waiting") ~> (pc[r] = "done")

\* a call that waited has been handed the permit of a call that returned with an error
C3_Witness ==
    \E r, q \in Requests :
        /\ pc[r] = "waiting"
        /\ r \in semaphore.woken
        /\ pc[q] = "done"
        /\ result[q].action = "error"


\* the permits taken from the semaphore
PermitsHeld == config.max_concurrent_tasks - semaphore.value

\* C37 as stated: wherever another task can run, active_tasks equals the number of
\* permits held, max_concurrent_tasks minus the free permits, and is never negative.
C37_ActiveEqualsPermitsHeld ==
    /\ state.active_tasks >= 0
    /\ state.active_tasks = PermitsHeld

\* C37: wherever another task can run, active_tasks is never negative and equals the
\* number of permits held less the permits handed to waiting calls that have not yet
\* resumed: a call counted as active holds a permit, and a permit is held uncounted only
\* between the release that woke its waiter and that waiter's resumption.
C37_ActiveWithinPermitsHeld ==
    /\ state.active_tasks >= 0
    /\ state.active_tasks = PermitsHeld - Cardinality(semaphore.woken)

\* a waiting call has been handed the permit of a call that returned and has not yet
\* resumed: both permits are held and one call is counted
C37_Witness ==
    /\ \E r \in Requests : pc[r] = "waiting" /\ r \in semaphore.woken
    /\ PermitsHeld = config.max_concurrent_tasks
    /\ state.active_tasks = config.max_concurrent_tasks - 1

\* the calls that have taken their permit and counted themselves as active
Admitted == {r \in Requests : pc[r] \notin {"idle", "admission", "waiting"}}

\* the calls that have counted their end and have yet to leave the semaphore block
Leaving == {r \in Requests : pc[r] = "exiting"}

\* C38 as stated: at every suspension point of every decide call each admitted request
\* is counted in exactly one of active_tasks, completed_tasks and failed_tasks, so the
\* three add up to the number of requests admitted so far.
C38_CountedExactlyOnce ==
    state.active_tasks + state.completed_tasks + state.failed_tasks = Cardinality(Admitted)

\* C38: at every suspension point each admitted request is counted in active_tasks
\* until it leaves the semaphore block and in exactly one of completed_tasks and
\* failed_tasks from the end of its deliberation on, so the three add up to the number
\* of requests admitted plus the number of those that have counted their end and not
\* yet left; completed_tasks + failed_tasks never exceeds the number admitted.
C38_CountedByPhase ==
    /\ state.active_tasks + state.completed_tasks + state.failed_tasks
          = Cardinality(Admitted) + Cardinality(Leaving)
    /\ state.active_tasks = Cardinality(Admitted \ {r \in Requests : pc[r] = "done"})
    /\ state.completed_tasks + state.failed_tasks <= Cardinality(Admitted)

\* one call has counted its failure and is about to leave while another deliberates
C38_Witness ==
    \E r, q \in Requests :
        /\ pc[r] = "exiting"
        /\ result[r].action = "error"
        /\ pc[q] = "critics"
        /\ state.active_tasks = 2
        /\ state.failed_tasks = 1
        /\ Cardinality(Admitted) = 2
(***************************************************************************)
(* SpecUncertainty: UncertaintyEngine.compute applied to bounded inputs.   *)
(***************************************************************************)
\* the critic names a judgment map of this specification may hold
ProbeNames == {"rights", "risk", "truth"}

\* scores (tenths) the probe draws, two of them outside [0, 1]
ProbeScores == {-10, 0, 5, 10, 20}

ProbeConfidences == {2, 3, 9}

\* engine thresholds the probe draws, as fractions
ProbeThresholds == {<<0, 1>>, <<1, 4>>, <<3, 10>>, <<1, 3>>, <<7, 20>>, <<1, 2>>, <<1, 1>>, <<3, 2>>}

ProbeMaps ==
    UNION {[names -> {Judgment(s, c, FALSE) : s \in ProbeScores, c \in ProbeConfidences}] :
             names \in (SUBSET ProbeNames) \ {{}}}

\* a runtime that is built and never called
Idle ==
    Bootstrap(RuntimeConfig("balanced", 20, DefaultMaxConcurrentTasks),
              ModelBackendConfig(TRUE, 0), {}, Empty, "none", {})

InitUncertainty ==
    /\ Idle
    /\ probe \in [fn : {"compute"}, critics : ProbeMaps, threshold : ProbeThresholds,
                  out : {NoValue}]

Compute ==
    /\ probe.fn = "compute"
    /\ probe.out = NoValue
    /\ probe' = [probe EXCEPT !.out = UncertaintyCompute(probe.critics, probe.threshold)]
    /\ UNCHANGED <<configVars, runtimeVars, bus, hooks, stream>>

NextUncertainty == Compute

SpecUncertainty == InitUncertainty /\ [][NextUncertainty]_vars

\* C10: compute returns escalate = TRUE exactly when the uncertainty it returns is at
\* least the engine's threshold, and that uncertainty lies in [0, 1].
C10_EscalateIffThreshold ==
    (probe.fn = "compute" /\ probe.out # NoValue) =>
        /\ probe.out.escalate <=> FracGeq(probe.out.uncertainty, probe.threshold)
        /\ probe.out.uncertainty[1] >= 0
        /\ probe.out.uncertainty[1] <= probe.out.uncertainty[2]

\* a computed uncertainty that equals the threshold exactly, and escalates
C10_Witness ==
    /\ probe.fn = "compute"
    /\ probe.out # NoValue
    /\ FracEq(probe.out.uncertainty, probe.threshold)
    /\ probe.out.escalate
    /\ Cardinality(DOMAIN probe.critics) > 1
(***************************************************************************)
(* SpecBus: the event bus under one emitter, with listeners that return,   *)
(* raise or are cancelled, and an emit that its caller may cancel          *)
(***************************************************************************)
\* most listeners subscribed over all event names
MaxListeners == 3

Subscribed == SumOver([n \in EventNames |-> Len(bus.listeners[n])], EventNames)

Finished == {"completed", "logged", "cancelled"}

\* the subscribe that hands the new listener the events being broadcast under its name
SubscribeJoinsBroadcast(event_name, listener) ==
    /\ Subscribed < MaxListeners
    /\ bus' = [bus EXCEPT
                 !.listeners[event_name] = Append(@, listener),
                 !.calls = [e \in Emitters |->
                              IF @[e].at = "gathering" /\ @[e].event = Ev(event_name)
                              THEN [@[e] EXCEPT !.tasks = Append(@, [listener |-> listener,
                                                                     st |-> "pending"])]
                              ELSE @[e]]]
    /\ UNCHANGED <<configVars, runtimeVars, probe, hooks, stream>>

\* EventBus.subscribe(event_name, listener)
Subscribe(event_name, listener) ==
    /\ Subscribed < MaxListeners
    /\ bus' = [bus EXCEPT !.listeners[event_name] = Append(@, listener)]
    /\ UNCHANGED <<configVars, runtimeVars, probe, hooks, stream>>

\* EventBus.broadcast(event) by emitter e up to the await of gather: either no listener
\* is registered under the event's name and broadcast returns, or one task per registered
\* listener is created
Broadcast(e, event) ==
    /\ bus.calls[e].at # "gathering"
    /\ LET listeners == bus.listeners[event.name]
       IN  bus' = [bus EXCEPT !.calls[e] =
                     IF listeners = <<>>
                     THEN [NoCall EXCEPT !.at = "returned", !.event = event,
                                         !.returned = [kind |-> "event", event |-> event]]
                     ELSE [NoCall EXCEPT !.at = "gathering", !.event = event,
                                         !.snapshot = listeners,
                                         !.tasks = [i \in 1 .. Len(listeners) |->
                                                      [listener |-> listeners[i],
                                                       st |-> "pending"]]]]
    /\ UNCHANGED <<configVars, runtimeVars, probe, hooks, stream>>

\* EventBus.emit(event_name) by emitter e: the event is built and broadcast
Emit(e, event_name) == Broadcast(e, Ev(event_name))

\* telemetry.emit_trace(message) by emitter e
EmitTrace(e, message) == Broadcast(e, Trace(message))

\* the task emitter e awaits emit in is cancelled, as wait_for does on a timeout: gather
\* passes the cancellation on to every task that has not ended
CancelEmit(e) ==
    /\ bus.calls[e].at = "gathering"
    /\ ~bus.calls[e].cancel_requested
    /\ bus' = [bus EXCEPT !.calls[e].cancel_requested = TRUE]
    /\ UNCHANGED <<configVars, runtimeVars, probe, hooks, stream>>

\* the task of _safe_invoke starts and awaits its listener; a task that was cancelled
\* before its first step never enters the listener
ListenerStarts(e, i) ==
    /\ i \in DOMAIN bus.calls[e].tasks
    /\ bus.calls[e].tasks[i].st = "pending"
    /\ bus' = [bus EXCEPT !.calls[e].tasks[i].st =
                  IF bus.calls[e].cancel_requested THEN "cancelled" ELSE "running"]
    /\ UNCHANGED <<configVars, runtimeVars, probe, hooks, stream>>

\* the listener returns or raises and the task of _safe_invoke ends; a listener that is
\* cancelled at its await ends cancelled, unless it swallows the cancellation
ListenerEnds(e, i) ==
    /\ i \in DOMAIN bus.calls[e].tasks
    /\ bus.calls[e].tasks[i].st = "running"
    /\ \E end \in {SafeInvokeEnds(bus.calls[e].tasks[i].listener)}
                    \cup (IF bus.calls[e].cancel_requested THEN {"cancelled"} ELSE {}) :
          bus' = [bus EXCEPT !.calls[e].tasks[i].st = end]
    /\ UNCHANGED <<configVars, runtimeVars, probe, hooks, stream>>

\* gather(*tasks) without return_exceptions: the first task that ends cancelled ends the
\* wait and its CancelledError reaches the caller of emit
GatherRaisesFirst(e) ==
    /\ bus.calls[e].at = "gathering"
    /\ \/ /\ \E i \in DOMAIN bus.calls[e].tasks : bus.calls[e].tasks[i].st = "cancelled"
          /\ bus' = [bus EXCEPT !.calls[e].at = "returned",
                                !.calls[e].returned =
                                    [kind |-> "raised", exc |-> "CancelledError"]]
       \/ /\ \A i \in DOMAIN bus.calls[e].tasks :
                bus.calls[e].tasks[i].st \in Finished \ {"cancelled"}
          /\ bus' = [bus EXCEPT !.calls[e].at = "returned",
                                !.calls[e].returned =
                                    [kind |-> "event", event |-> bus.calls[e].event]]
    /\ UNCHANGED <<configVars, runtimeVars, probe, hooks, stream>>

\* asyncio.wait(tasks, return_when=FIRST_COMPLETED) in the place of gather: broadcast
\* returns when one task has ended
GatherFirstCompleted(e) ==
    /\ bus.calls[e].at = "gathering"
    /\ \E i \in DOMAIN bus.calls[e].tasks : bus.calls[e].tasks[i].st \in Finished
    /\ bus' = [bus EXCEPT !.calls[e].at = "returned",
                          !.calls[e].returned =
                              [kind |-> "event", event |-> bus.calls[e].event]]
    /\ UNCHANGED <<configVars, runtimeVars, probe, hooks, stream>>

\* the broadcast that creates the tasks and returns without waiting for them
GatherDetached(e) ==
    /\ bus.calls[e].at = "gathering"
    /\ bus' = [bus EXCEPT !.calls[e].at = "returned",
                          !.calls[e].returned =
                              [kind |-> "event", event |-> bus.calls[e].event]]
    /\ UNCHANGED <<configVars, runtimeVars, probe, hooks, stream>>

\* gather(*tasks, return_exceptions=True) is done once every task is, whatever its end;
\* broadcast returns and emit returns the event, or, when the emitter was cancelled
\* meanwhile, its await ends in CancelledError
Gather(e) ==
    /\ bus.calls[e].at = "gathering"
    /\ \A i \in DOMAIN bus.calls[e].tasks : bus.calls[e].tasks[i].st \in Finished
    /\ bus' = [bus EXCEPT !.calls[e].at = "returned",
                          !.calls[e].returned =
                              IF bus.calls[e].cancel_requested
                              THEN [kind |-> "raised", exc |-> "CancelledError"]
                              ELSE [kind |-> "event", event |-> bus.calls[e].event]]
    /\ UNCHANGED <<configVars, runtimeVars, probe, hooks, stream>>

InitBus ==
    /\ Idle
    /\ probe = NoValue

NextBus ==
    \/ \E n \in EventNames, l \in ListenerKinds : Subscribe(n, l)
    \/ \E n \in EventNames : Emit("first", n)
    \/ CancelEmit("first")
    \/ \E i \in 1 .. MaxListeners : ListenerStarts("first", i)
    \/ \E i \in 1 .. MaxListeners : ListenerEnds("first", i)
    \/ Gather("first")

SpecBus == InitBus /\ [][NextBus]_vars

\* C9: every listener registered for the event's name when it is emitted gets a task; a
\* listener that raises keeps no other task from starting or from ending, and once an
\* emit that nobody cancelled has returned, it has returned the event, every task has
\* ended and every listener that does not raise has run to completion.
C9_ListenerIsolation ==
    \A e \in Emitters :
        LET call == bus.calls[e]
        IN  /\ Len(call.tasks) = Len(call.snapshot)
            /\ \A i \in DOMAIN call.tasks :
                  /\ call.tasks[i].listener = call.snapshot[i]
                  /\ call.tasks[i].st = "pending" => ENABLED ListenerStarts(e, i)
                  /\ call.tasks[i].st = "running" => ENABLED ListenerEnds(e, i)
            /\ (call.at = "returned" /\ ~call.cancel_requested) =>
                  /\ call.returned = [kind |-> "event", event |-> call.event]
                  /\ \A i \in DOMAIN call.tasks :
                        /\ call.tasks[i].st \in Finished
                        /\ call.tasks[i].listener = "returns" =>
                              call.tasks[i].st = "completed"

\* emit has returned the event to three listeners of which the first raised an Exception,
\* the second a CancelledError, and the third ran to completion
C9_Witness ==
    LET call == bus.calls["first"]
    IN  /\ call.at = "returned"
        /\ ~call.cancel_requested
        /\ Len(call.tasks) = 3
        /\ call.tasks[1].st = "logged"
        /\ call.tasks[2].st = "cancelled"
        /\ call.tasks[3].st = "completed"
        /\ call.returned = [kind |-> "event", event |-> Ev("telemetry.trace")]

\* C18: broadcast, and with it emit, ends only after every listener task it created has
\* ended, by returning or by failing: no task of an emit that has ended is pending or
\* running, also when the emitter was cancelled while it waited.
C18_EmitWaitsForListeners ==
    \A e \in Emitters :
        bus.calls[e].at = "returned" =>
            /\ \A i \in DOMAIN bus.calls[e].tasks : bus.calls[e].tasks[i].st \in Finished
            /\ bus.calls[e].returned # NoValue

\* an emit to three listeners has returned after all of them ended, the last to start
\* being a listener that raised
C18_Witness ==
    LET call == bus.calls["first"]
    IN  /\ call.at = "returned"
        /\ Len(call.tasks) = 3
        /\ call.tasks[1].st = "completed"
        /\ call.tasks[2].st = "completed"
        /\ call.tasks[3].st = "logged"
        /\ call.returned = [kind |-> "event", event |-> Ev("runtime.request.received")]

\* the listeners an emit created tasks for, in order
Invoked(call) == [i \in 1 .. Len(call.tasks) |-> call.tasks[i].listener]

\* C29: an emit creates tasks for exactly the listeners registered under the event's name
\* before the call; while the broadcast is in progress no task is added to it, whoever
\* subscribes meanwhile; and a subscription changes no emit, past or in progress, so that
\* nothing is replayed to the new listener.
C29_NoLateDelivery ==
    [][\A e \in Emitters :
          LET old == bus.calls[e]
              new == bus'.calls[e]
          IN  /\ (old.at # "gathering" /\ new # old) =>
                    Invoked(new) = bus.listeners[new.event.name]
              /\ old.at = "gathering" => Invoked(new) = Invoked(old)
              /\ (\E n \in EventNames : bus'.listeners[n] # bus.listeners[n]) => new = old
      ]_vars

\* two listeners were subscribed under the name of an event while its broadcast is in
\* progress: the broadcast still has the one task of the listener registered before it
C29_Witness ==
    LET call == bus.calls["first"]
    IN  /\ call.at = "gathering"
        /\ Len(call.tasks) = 1
        /\ call.tasks[1] = [listener |-> "returns", st |-> "running"]
        /\ bus.listeners[call.event.name] = <<"returns", "raises", "returns">>

\* C32: when the task that awaits an emit is cancelled, as wait_for cancels the
\* deliberation on decision_timeout, the listener invocations in progress for that emit
\* run to completion: a running listener that would return is never ended by
\* cancellation.
C32_EmissionsRunToCompletion ==
    [][\A e \in Emitters :
          \A i \in DOMAIN bus.calls[e].tasks \cap DOMAIN bus'.calls[e].tasks :
              (/\ bus.calls[e].tasks[i].st = "running"
               /\ bus.calls[e].tasks[i].listener = "returns"
               /\ bus'.calls[e].event = bus.calls[e].event)
              => bus'.calls[e].tasks[i].st \in {"running", "completed"}
      ]_vars

(***************************************************************************)
(* SpecEmitters: the event bus under two emitters that emit concurrently   *)
(***************************************************************************)
NextEmitters ==
    \/ \E n \in EventNames, l \in ListenerKinds : Subscribe(n, l)
    \/ \E e \in Emitters, n \in EventNames : Emit(e, n)
    \/ \E e \in Emitters, i \in 1 .. MaxListeners : ListenerStarts(e, i)
    \/ \E e \in Emitters, i \in 1 .. MaxListeners : ListenerEnds(e, i)
    \/ \E e \in Emitters : Gather(e)

SpecEmitters == InitBus /\ [][NextEmitters]_vars

\* C19: under concurrent emitters of one event name no listener is running for two
\* events at once: the task that one emit created for a listener is not running while
\* the task another emit created for the same listener is.
C19_ListenerNotReentered ==
    \A e1, e2 \in Emitters :
        (e1 # e2 /\ bus.calls[e1].event = bus.calls[e2].event) =>
            \A i \in DOMAIN bus.calls[e1].tasks \cap DOMAIN bus.calls[e2].tasks :
                ~(bus.calls[e1].tasks[i].st = "running" /\ bus.calls[e2].tasks[i].st = "running")

(***************************************************************************)
(* SpecOrder: one task that reports a failed backend attempt and then the  *)
(* router's error, as Router.execute does on its last attempt, next to     *)
(* another task that emits traces of its own                               *)
(***************************************************************************)
\* the emits of Router._run_backend and Router.execute when the last attempt has failed:
\* router.backend_retry, and router.error when that emit has returned
RouterEmits(e) ==
    \/ /\ bus.calls[e].at = "idle"
       /\ EmitTrace(e, "router.backend_retry")
    \/ /\ bus.calls[e].at = "returned"
       /\ bus.calls[e].event = Trace("router.backend_retry")
       /\ EmitTrace(e, "router.error")

NextOrder ==
    \/ \E l \in ListenerKinds : Subscribe("telemetry.trace", l)
    \/ RouterEmits("first")
    \/ EmitTrace("second", "fusion.escalate")
    \/ \E e \in Emitters, i \in 1 .. MaxListeners : ListenerStarts(e, i)
    \/ \E e \in Emitters, i \in 1 .. MaxListeners : ListenerEnds(e, i)
    \/ \E e \in Emitters : Gather(e)

SpecOrder == InitBus /\ [][NextOrder]_vars

\* C30: a listener is invoked for the events of one emitting task in the order the task
\* emitted them, whatever other emitters do meanwhile: the task emits its next event only
\* when every listener task of its previous event has ended, and a listener task is
\* started only for the event its emitter is emitting, so no invocation for an earlier
\* event is left to come after one for a later event.
C30_EmissionOrder ==
    [][\A e \in Emitters :
          LET old == bus.calls[e]
              new == bus'.calls[e]
          IN  /\ (new.event # old.event \/ (old.at = "returned" /\ new.at = "gathering")) =>
                    \A i \in DOMAIN old.tasks : old.tasks[i].st \in Finished
              /\ \A i \in DOMAIN old.tasks \cap DOMAIN new.tasks :
                    (old.tasks[i].st = "pending" /\ new.tasks[i].st = "running") =>
                        /\ old.at = "gathering"
                        /\ new.event = old.event
              /\ (new.event = Trace("router.error") /\ old.event # new.event) =>
                    /\ old.event = Trace("router.backend_retry")
                    /\ old.at = "returned"
      ]_vars

\* the listener is running for the router's second event, router.error, while it is also
\* running for an event of the other emitter
C30_Witness ==
    /\ bus.listeners["telemetry.trace"] = <<"returns">>
    /\ bus.calls["first"].event = Trace("router.error")
    /\ bus.calls["first"].at = "gathering"
    /\ bus.calls["first"].tasks = <<[listener |-> "returns", st |-> "running"]>>
    /\ bus.calls["second"].event = Trace("fusion.escalate")
    /\ bus.calls["second"].tasks = <<[listener |-> "returns", st |-> "running"]>>

(***************************************************************************)
(* SpecRoute: Router.route over routing rules and requests                 *)
(***************************************************************************)
\* most routing rules of a RouterConfig
MaxRules == 2

\* the keys and values of requests and of rule conditions; "None" is Python's None
RouteKeys == {"task", "lang"}

RouteValues == {"None", "summarize"}

RouteMaps == UNION {[keys -> RouteValues] : keys \in SUBSET RouteKeys}

RouteRules == [if : RouteMaps, use_model : {"m1", "m2"}]

RouteRuleLists == UNION {[1 .. n -> RouteRules] : n \in 0 .. MaxRules}

\* request.get(key)
RequestGet(request, key) == IF key \in DOMAIN request THEN request[key] ELSE "None"

\* rule_matches(rule, request)
RuleMatches(rule, request) ==
    IF DOMAIN rule.if = {}
    THEN FALSE
    ELSE \A key \in DOMAIN rule.if : ~(RequestGet(request, key) # rule.if[key])

\* evaluate_rules(rules, request): the use_model of the first rule that matches, or None
EvaluateRules(rules, request) ==
    LET matching == {i \in DOMAIN rules : RuleMatches(rules[i], request)}
    IN  IF matching = {}
        THEN "None"
        ELSE rules[CHOOSE i \in matching : \A j \in matching : i <= j].use_model

\* Router.route(request)
Route(rules, request, default_model) ==
    LET model == EvaluateRules(rules, request)
    IN  IF model # "None" THEN model ELSE default_model

InitRoute ==
    /\ Idle
    /\ probe \in [fn : {"route"}, rules : RouteRuleLists, request : RouteMaps, out : {NoValue}]

RouteStep ==
    /\ probe.fn = "route"
    /\ probe.out = NoValue
    /\ probe' = [probe EXCEPT !.out = [model |-> Route(probe.rules, probe.request, "default")]]
    /\ UNCHANGED <<configVars, runtimeVars, bus, hooks, stream>>

NextRoute == RouteStep

SpecRoute == InitRoute /\ [][NextRoute]_vars

\* a rule matches when its condition is not empty and each of its keys is present in
\* the request with an equal value
Subset(rule, request) ==
    /\ DOMAIN rule.if # {}
    /\ \A key \in DOMAIN rule.if : key \in DOMAIN request /\ request[key] = rule.if[key]

\* C14: route returns the model of the first rule, in declared order, whose condition is
\* not empty and has every key present in the request with an equal value, and the
\* default model when there is no such rule; a key absent from the request satisfies no
\* condition.
C14_FirstSubsetRuleWins ==
    (probe.fn = "route" /\ probe.out # NoValue) =>
        LET matching == {i \in DOMAIN probe.rules : Subset(probe.rules[i], probe.request)}
        IN  probe.out.model =
               IF matching = {} THEN "default"
               ELSE probe.rules[CHOOSE i \in matching : \A j \in matching : i <= j].use_model

(***************************************************************************)
(* SpecHooks: the hook manager, with register under known and unknown      *)
(* names and fire over hooks that return, raise or are cancelled           *)
(***************************************************************************)
\* most hooks registered over all hook points
MaxHooks == 3

\* the names register and fire are called with: two hook points and an unknown name
HookNames == {"before_runtime_step", "after_runtime_step", "on_shutdown"}

Registered == SumOver([n \in DOMAIN hooks.table |-> Len(hooks.table[n])], DOMAIN hooks.table)

\* the register that accepts any name and makes the list it lacks
RegisterCreatesPoint(hook_name, fn) ==
    /\ Registered < MaxHooks
    /\ hooks' = [hooks EXCEPT
           !.table = [n \in DOMAIN @ \cup {hook_name} |->
                        IF n = hook_name
                        THEN (IF n \in DOMAIN @ THEN Append(@[n], fn) ELSE <<fn>>)
                        ELSE @[n]],
           !.accepted = @ + 1,
           !.last = [name |-> hook_name, outcome |-> "ok"]]
    /\ UNCHANGED <<configVars, runtimeVars, probe, bus, stream>>

\* HookManager.register(hook_name, fn): ValueError for a name that is no key of the table
Register(hook_name, fn) ==
    /\ Registered < MaxHooks
    /\ hooks' = IF hook_name \notin DOMAIN hooks.table
                THEN [hooks EXCEPT !.last = [name |-> hook_name, outcome |-> "ValueError"]]
                ELSE [hooks EXCEPT !.table[hook_name] = Append(@, fn),
                                   !.accepted = @ + 1,
                                   !.last = [name |-> hook_name, outcome |-> "ok"]]
    /\ UNCHANGED <<configVars, runtimeVars, probe, bus, stream>>

\* HookManager.fire(hook_name, context) up to the await of gather, called with a map the
\* caller has just built: with no hook under the name fire returns, otherwise one task
\* per hook is created, each on _safe(fn, context) with the caller's map itself
Fire(hook_name) ==
    /\ hooks.at # "gathering"
    /\ LET fns == IF hook_name \in DOMAIN hooks.table THEN hooks.table[hook_name] ELSE <<>>
       IN  hooks' = IF fns = <<>>
                    THEN [hooks EXCEPT !.at = "returned", !.point = hook_name,
                                       !.context = {},
                                       !.tasks = <<>>, !.returned = [kind |-> "none"]]
                    ELSE [hooks EXCEPT !.at = "gathering", !.point = hook_name,
                                       !.context = {},
                                       !.tasks = [i \in 1 .. Len(fns) |->
                                                    [fn |-> fns[i], st |-> "pending",
                                                     seen |-> {}]],
                                       !.returned = NoValue]
    /\ UNCHANGED <<configVars, runtimeVars, probe, bus, stream>>

\* the task of _safe starts and awaits its hook, which finds in its context what has
\* been written into the caller's map so far
HookStarts(i) ==
    /\ i \in DOMAIN hooks.tasks
    /\ hooks.tasks[i].st = "pending"
    /\ hooks' = [hooks EXCEPT !.tasks[i].st = "running", !.tasks[i].seen = hooks.context]
    /\ UNCHANGED <<configVars, runtimeVars, probe, bus, stream>>

\* what a hook's run leaves in the map it was given
Written(fn, i, ctx) == IF fn = "writes" THEN ctx \cup {i} ELSE ctx

\* the hook returns or raises and the task of _safe ends; a write went into the map the
\* hook was given, which is the caller's
HookEnds(i) ==
    /\ i \in DOMAIN hooks.tasks
    /\ hooks.tasks[i].st = "running"
    /\ hooks' = [hooks EXCEPT !.tasks[i].st = SafeEnds(hooks.tasks[i].fn),
                              !.context = Written(hooks.tasks[i].fn, i, @)]
    /\ UNCHANGED <<configVars, runtimeVars, probe, bus, stream>>

\* gather(*tasks, return_exceptions=True) is done once every task is; fire returns None
HookGather ==
    /\ hooks.at = "gathering"
    /\ \A i \in DOMAIN hooks.tasks : hooks.tasks[i].st \in Finished
    /\ hooks' = [hooks EXCEPT !.at = "returned", !.returned = [kind |-> "none"]]
    /\ UNCHANGED <<configVars, runtimeVars, probe, bus, stream>>

InitHooks ==
    /\ Idle
    /\ probe = NoValue

NextHooks ==
    \/ \E n \in HookNames, fn \in HookKinds : Register(n, fn)
    \/ \E n \in HookNames : Fire(n)
    \/ \E i \in 1 .. MaxHooks : HookStarts(i)
    \/ \E i \in 1 .. MaxHooks : HookEnds(i)
    \/ HookGather

SpecHooks == InitHooks /\ [][NextHooks]_vars

\* C15: register under a name outside the eight hook points raises ValueError and leaves
\* the table as it was (its keys stay the eight points and it holds exactly the hooks of
\* the accepted registrations); fire gives every hook of the point a task, a hook that
\* raises keeps no other task from starting or ending, and once fire has returned it has
\* returned normally and every hook that does not raise has run to completion.
C15_HookManager ==
    /\ DOMAIN hooks.table = HookPoints
    /\ Registered = hooks.accepted
    /\ hooks.last # NoValue =>
          (hooks.last.outcome = "ValueError" <=> hooks.last.name \notin HookPoints)
    /\ \A i \in DOMAIN hooks.tasks :
          /\ hooks.tasks[i].st = "pending" => ENABLED HookStarts(i)
          /\ hooks.tasks[i].st = "running" => ENABLED HookEnds(i)
    /\ hooks.at = "gathering" => Len(hooks.tasks) > 0
    /\ hooks.at = "returned" =>
          /\ hooks.returned = [kind |-> "none"]
          /\ \A i \in DOMAIN hooks.tasks :
                /\ hooks.tasks[i].st \in Finished
                /\ hooks.tasks[i].fn = "returns" => hooks.tasks[i].st = "completed"

\* a register under an unknown name has failed, and a fire has returned after its first
\* hook raised and its second ran to completion
C15_Witness ==
    /\ hooks.last = [name |-> "on_shutdown", outcome |-> "ValueError"]
    /\ hooks.at = "returned"
    /\ Len(hooks.tasks) = 2
    /\ hooks.tasks[1].st = "logged"
    /\ hooks.tasks[2].st = "completed"

\* C31: each hook fired for a point gets a copy of the context of its own: no hook finds
\* in its context an entry another hook wrote, and the map of the caller of fire holds
\* no entry a hook wrote once fire has returned.
C31_ContextCopyPerHook ==
    /\ \A i \in DOMAIN hooks.tasks : hooks.tasks[i].seen = {}
    /\ hooks.at = "returned" => hooks.context = {}

(***************************************************************************)
(* SpecStream: orchestrate and run_critic_stream of the streaming driver,  *)
(* over an adapter whose stream and whose completion may each fail         *)
(***************************************************************************)
\* what parse_critic_output gives for a critic's text, as far as the decision reads it:
\* whether a constitutional principle is named, and whether the confidence is on the
\* far side of the critic's threshold
ParsedJudgments == [principle : BOOLEAN, above : BOOLEAN]

\* parse_critic_output(""): no principle, confidence 0.0
ParsedEmpty == [principle |-> FALSE, above |-> FALSE]

\* results.get(critic, {}) as compute_final_decision reads it
ResultOf(res, critic) == IF critic \in DOMAIN res THEN res[critic] ELSE ParsedEmpty

\* compute_final_decision(results, conflicts)
ComputeFinalDecision(res) ==
    LET hit(c) == ResultOf(res, c).principle /\ ResultOf(res, c).above
    IN  IF hit("rights") THEN [outcome |-> "blocked", flags |-> <<"rights">>]
        ELSE IF hit("risk") THEN [outcome |-> "blocked", flags |-> <<"risk">>]
        ELSE IF hit("fairness")
        THEN [outcome |-> "allowed_with_mitigations", flags |-> <<"fairness">>]
        ELSE IF hit("truth")
        THEN [outcome |-> "allowed_with_mitigations", flags |-> <<"truth">>]
        ELSE IF "pragmatics" \in DOMAIN res /\ ~res["pragmatics"].above
        THEN [outcome |-> "needs_clarification", flags |-> <<"pragmatics">>]
        ELSE [outcome |-> "allowed_with_mitigations", flags |-> <<>>]

\* DeliberationEvent and ConflictEvent as run_critic_stream sends them; the confidence
\* of an incremental event is the running estimate, from the chunk's log-probabilities
\* when it has them and from the collected text otherwise
DeliberationEvent(critic, message, confidence) ==
    [type |-> "deliberation_event", critic |-> critic, message |-> message,
     confidence |-> confidence]

ConflictEvent(critic, severity, message) ==
    [type |-> "conflict", critic |-> critic, severity |-> severity, message |-> message]

Starting(c) == DeliberationEvent(c, "critic starting", "0.05")

Incremental(c, chunk) == DeliberationEvent(c, chunk.content, "running estimate")

StreamFailed(c) == ConflictEvent(c, "low", "critic stream failed, falling back to completion")

CriticComplete(c) == DeliberationEvent(c, "critic complete", "parsed")

\* the chunks adapter.stream yields: a string, or a map with content and logprobs, of
\* which the content may be empty
Chunks == [content : {"", "a", "b"}]

\* the adapters orchestrate is called with, each told by the critics whose stream it
\* has chunks for or fails; the stream of any other critic ends without a chunk
Adapters == {live \in SUBSET CRITICS : Cardinality(live) <= MaxLive}

\* the text collected from the chunks is empty
NoText(seq) == \A i \in DOMAIN seq : seq[i].content = ""

\* parse_critic_output(collected_text): the defaults for an empty text, and whatever
\* the labels of the text say otherwise
ParseCriticOutput(empty) == IF empty THEN {ParsedEmpty} ELSE ParsedJudgments

\* _conflict_checks(critic, parsed): the sequences of events it makes run_critic_stream
\* emit, one event or none. For rights and risk the claim and the evidence of the parsed
\* text decide where principle and confidence do not, and an empty text names no
\* consent.
ConflictChecks(c, parsed, empty) ==
    LET hit == parsed.principle /\ parsed.above
        one(severity) == <<ConflictEvent(c, severity, "conflict check")>>
    IN  CASE c = "rights" ->
                IF hit THEN {one("high")}
                ELSE IF empty THEN {one("medium")}
                ELSE {one("high"), one("medium"), <<>>}
          [] c = "risk" ->
                IF hit THEN {one("medium")}
                ELSE IF parsed.above /\ ~empty THEN {one("medium"), <<>>}
                ELSE {<<>>}
          [] c = "fairness" -> IF hit THEN {one("medium")} ELSE {<<>>}
          [] c = "truth" -> IF hit THEN {one("low")} ELSE {<<>>}
          [] c = "pragmatics" -> IF ~parsed.above THEN {one("low")} ELSE {<<>>}

\* a critic task raised: the TaskGroup cancels the tasks that have not ended
Aborting == \E c \in CRITICS : stream.tasks[c] = "failed"

Ended == {"done", "failed", "cancelled"}

\* orchestrate enters the TaskGroup and creates one task per critic
Orchestrate ==
    /\ stream.at = "idle"
    /\ \E adapter \in Adapters :
          stream' = [stream EXCEPT !.at = "running", !.adapter = adapter,
                                   !.tasks = [c \in CRITICS |-> "pending"]]
    /\ UNCHANGED <<configVars, runtimeVars, probe, bus, hooks>>

\* run_critic_stream announces the critic and opens adapter.stream
CriticStarts(c) ==
    /\ stream.tasks[c] = "pending"
    /\ ~Aborting
    /\ stream' = [stream EXCEPT !.tasks[c] = "streaming",
                                !.events[c] = Append(@, Starting(c))]
    /\ UNCHANGED <<configVars, runtimeVars, probe, bus, hooks>>

\* the chunks read from the streams of one orchestrate so far
ChunksRead == SumOver([c \in CRITICS |-> Len(stream.chunks[c])], CRITICS)

\* adapter.stream yields a chunk: one without content is passed over, any other is
\* added to the collected text and announced by an incremental event
ChunkRead(c, chunk) ==
    /\ stream.tasks[c] = "streaming"
    /\ ~Aborting
    /\ c \in stream.adapter
    /\ ChunksRead < MaxChunks
    /\ stream' = [stream EXCEPT !.chunks[c] = Append(@, chunk),
                                !.events[c] = IF chunk.content = "" THEN @
                                              ELSE Append(@, Incremental(c, chunk))]
    /\ UNCHANGED <<configVars, runtimeVars, probe, bus, hooks>>

\* the rest of run_critic_stream once the text is collected: parse it, record the
\* judgment, emit the conflict its check finds, if any, and the complete event
Finish(c, empty) ==
    \E parsed \in ParseCriticOutput(empty) :
       \E conflict \in ConflictChecks(c, parsed, empty) :
          stream' = [stream EXCEPT !.tasks[c] = "done",
                                   !.events[c] = @ \o conflict \o <<CriticComplete(c)>>,
                                   !.results = [k \in DOMAIN @ \cup {c} |->
                                                  IF k = c THEN parsed ELSE @[k]]]

\* the stream ends: either it is exhausted and run_critic_stream goes on to its end,
\* or it raises and run_critic_stream emits the conflict and turns to adapter.complete
StreamEnds(c) ==
    /\ stream.tasks[c] = "streaming"
    /\ ~Aborting
    /\ \/ Finish(c, NoText(stream.chunks[c]))
       \/ /\ c \in stream.adapter
          /\ stream' = [stream EXCEPT !.tasks[c] = "fallback",
                                      !.events[c] = Append(@, StreamFailed(c)),
                                      !.completions[c] = @ + 1]
    /\ UNCHANGED <<configVars, runtimeVars, probe, bus, hooks>>

\* adapter.complete ends: either it returns, its content is added to the collected
\* text and run_critic_stream goes on to its end, or it raises, and the exception
\* leaves run_critic_stream and ends the task
FallbackEnds(c) ==
    /\ stream.tasks[c] = "fallback"
    /\ ~Aborting
    /\ \/ \E content \in {"", "a"} : Finish(c, NoText(stream.chunks[c]) /\ content = "")
       \/ stream' = [stream EXCEPT !.tasks[c] = "failed"]
    /\ UNCHANGED <<configVars, runtimeVars, probe, bus, hooks>>

\* a task the TaskGroup cancelled ends at its await, with nothing recorded
CriticCancelled(c) ==
    /\ stream.tasks[c] \in {"pending", "streaming", "fallback"}
    /\ Aborting
    /\ stream' = [stream EXCEPT !.tasks[c] = "cancelled"]
    /\ UNCHANGED <<configVars, runtimeVars, probe, bus, hooks>>

\* every task has ended and the TaskGroup exits: with a failed task it raises the group
\* of their exceptions out of orchestrate; otherwise the final decision is computed,
\* stored, emitted and returned
TaskGroupExits ==
    /\ stream.at = "running"
    /\ \A c \in CRITICS : stream.tasks[c] \in Ended
    /\ stream' = IF Aborting
                 THEN [stream EXCEPT !.at = "raised"]
                 ELSE [stream EXCEPT !.at = "returned",
                                     !.final = ComputeFinalDecision(stream.results)]
    /\ UNCHANGED <<configVars, runtimeVars, probe, bus, hooks>>

InitStream ==
    /\ Idle
    /\ probe = NoValue

NextStream ==
    \/ Orchestrate
    \/ \E c \in CRITICS : CriticStarts(c)
    \/ \E c \in CRITICS, chunk \in Chunks : ChunkRead(c, chunk)
    \/ \E c \in CRITICS : StreamEnds(c)
    \/ \E c \in CRITICS : FallbackEnds(c)
    \/ \E c \in CRITICS : CriticCancelled(c)
    \/ TaskGroupExits

SpecStream == InitStream /\ [][NextStream]_vars

\* C20: a critic whose stream and whose fallback completion both fail does not abort the
\* other critics: while such a critic exists no critic task is cancelled and orchestrate
\* does not raise, and once every task has ended the failed critic has the zero-filled
\* judgment in the results and orchestrate goes on to return a final decision.
C20_StreamingIsolation ==
    \A c \in CRITICS :
       stream.tasks[c] = "failed" =>
          /\ \A k \in CRITICS : stream.tasks[k] # "cancelled"
          /\ stream.at # "raised"
          /\ (\A k \in CRITICS : stream.tasks[k] \in Ended) =>
                /\ c \in DOMAIN stream.results
                /\ stream.results[c] = ParsedEmpty

IncrementalEvents(c, chunks) == [i \in 1 .. Len(chunks) |-> Incremental(c, chunks[i])]

ConflictCheckEvents(c) ==
    {<<>>} \cup {<<ConflictEvent(c, severity, "conflict check")>> :
                   severity \in {"low", "medium", "high"}}

\* the events of critic c are: the starting event, one incremental event for each of
\* the given chunks in their order, the stream-failed conflict exactly when
\* adapter.complete was called, which is at most once, and, when the task is done, at
\* most one conflict of the check and the complete event last
EventOrder(c, chunks) ==
    LET head   == <<Starting(c)>> \o IncrementalEvents(c, chunks)
        failed == IF stream.completions[c] = 1 THEN <<StreamFailed(c)>> ELSE <<>>
    IN  \/ stream.events[c] = <<>> /\ stream.completions[c] = 0
        \/ /\ stream.completions[c] \in {0, 1}
           /\ IF stream.tasks[c] = "done"
              THEN \E check \in ConflictCheckEvents(c) :
                      stream.events[c] = head \o failed \o check \o <<CriticComplete(c)>>
              ELSE stream.events[c] = head \o failed

\* C33: the events of each critic are the starting event with confidence
\* 0.05, then one incremental event per chunk received, in the order received, then,
\* only if the stream failed, one low-severity conflict with exactly one completion
\* call, then at most one conflict-check event, and the complete event last.
C33_EventOrderPerChunk == \A c \in CRITICS : EventOrder(c, stream.chunks[c])

(***************************************************************************)
(* SpecGate: HybridCore._apply_mode applied to every fusion result under   *)
(* every setting of a HybridModeConfig's flags                             *)
(***************************************************************************)
\* the predefined modes, and a mode for every setting of the five flags
GateModes ==
    {HybridModeGet(n) : n \in ModeNames}
    \cup {HybridModeConfig("custom", lex, over, auto, <<35, 100>>, block, adv) :
            lex \in BOOLEAN, over \in BOOLEAN, auto \in BOOLEAN, block \in BOOLEAN,
            adv \in BOOLEAN}

\* fusion results: every action with and without lex_block
GateFusions ==
    [action      : {"proceed", "escalate", "reject"},
     confidence  : {<<1, 1>>},
     uncertainty : {<<0, 1>>, <<2, 5>>},
     lex_block   : BOOLEAN,
     rationale   : {"Rights-critical violation detected."},
     precedent   : {<<>>}]

InitGate ==
    /\ Idle
    /\ probe \in [fn : {"_apply_mode"}, mode : GateModes, fusion_out : GateFusions,
                  out : {NoValue}]

ApplyGate ==
    /\ probe.fn = "_apply_mode"
    /\ probe.out = NoValue
    /\ probe' = [probe EXCEPT !.out = ApplyMode(probe.mode, probe.fusion_out)]
    /\ UNCHANGED <<configVars, runtimeVars, bus, hooks, stream>>

NextGate == ApplyGate

SpecGate == InitGate /\ [][NextGate]_vars

\* C23: the mode gate decides by strict priority, for every fusion result and mode: a lex
\* block under enforce_lex is rejected with reason rights_violation around the fusion
\* result; failing that, advisory_only gives advice around it; failing that, action
\* escalate under auto_escalate raises the escalation signal; failing all three the
\* fusion result is returned as it is.
C23_GatePriority ==
    (probe.fn = "_apply_mode" /\ probe.out # NoValue) =>
        LET m      == probe.mode
            fusion == probe.fusion_out
            first  == fusion.lex_block /\ m.enforce_lex
            second == ~first /\ m.advisory_only
            third  == ~first /\ ~second /\ fusion.action = "escalate" /\ m.auto_escalate
        IN  /\ first => probe.out = Returned([action |-> "reject",
                                              reason |-> "rights_violation",
                                              fusion |-> fusion])
            /\ second => probe.out = Returned([action |-> "advice", fusion |-> fusion])
            /\ third => probe.out = EscalationRequired
            /\ (~first /\ ~second /\ ~third) => probe.out = Returned(fusion)

\* a lex block with action escalate, under a mode that enforces lex, is advisory and
\* escalates by itself, has been rejected
C23_Witness ==
    /\ probe.fn = "_apply_mode"
    /\ probe.out # NoValue
    /\ probe.fusion_out.lex_block
    /\ probe.fusion_out.action = "escalate"
    /\ probe.mode.enforce_lex
    /\ probe.mode.advisory_only
    /\ probe.mode.auto_escalate
    /\ probe.out.kind = "decision"
    /\ probe.out.value.action = "reject"

(***************************************************************************)
(* SpecFuse: CriticFusion.fuse applied to bounded judgment maps            *)
(***************************************************************************)
\* what a critic's entry in the map may be: a judgment with either verdict, the
\* zero-filled judgment of a failed critic, or a judgment whose score is no number
FuseJudgments ==
    {Judgment(s, 9, v) : s \in {0, 5, 10}, v \in BOOLEAN}
    \cup {ZeroFilled} \cup {Garbled(v) : v \in BOOLEAN}

\* every map over a subset of three critic names, the empty map included
FuseMaps == UNION {[names -> FuseJudgments] : names \in SUBSET ProbeNames}

InitFuse ==
    /\ Idle
    /\ probe \in [fn : {"fuse"}, critics : FuseMaps, out : {NoValue}]

\* fuse returns its outcome, or raises on a score float() does not accept
FuseProbe ==
    /\ probe.fn = "fuse"
    /\ probe.out = NoValue
    /\ probe' = [probe EXCEPT !.out = IF FuseRaises(probe.critics)
                                      THEN Raised(FusionErrorText)
                                      ELSE Returned(CriticFuse(probe.critics))]
    /\ UNCHANGED <<configVars, runtimeVars, bus, hooks, stream>>

NextFuse == FuseProbe

SpecFuse == InitFuse /\ [][NextFuse]_vars

\* C25: an outcome of fuse with lex_block has aggregate_score 0 and violations that are
\* not empty and name only rights critics of the map whose violation flag is set; an
\* outcome without lex_block has no violations; either outcome keeps every judgment of
\* the input map in details as it was given.
C25_FuseOutcome ==
    (probe.fn = "fuse" /\ probe.out # NoValue /\ probe.out.kind = "decision") =>
        LET fused == probe.out.value
        IN  /\ fused.lex_block =>
                  /\ FracEq(fused.aggregate_score, <<0, 1>>)
                  /\ fused.violations # {}
                  /\ \A c \in fused.violations :
                        /\ c \in RIGHTS_CRITICS
                        /\ c \in DOMAIN probe.critics
                        /\ probe.critics[c].violation
            /\ ~fused.lex_block => fused.violations = {}
            /\ fused.details.critic_outputs = probe.critics

\* fuse has blocked on the rights critic's violation in a map where another critic flags
\* a violation too and a third has a score that is no number
C25_Witness ==
    /\ probe.fn = "fuse"
    /\ probe.out # NoValue
    /\ probe.out.kind = "decision"
    /\ DOMAIN probe.critics = ProbeNames
    /\ probe.critics["rights"].violation
    /\ probe.critics["risk"] = Judgment(10, 9, TRUE)
    /\ probe.critics["truth"] = Garbled(FALSE)
    /\ probe.out.value.lex_block
    /\ probe.out.value.violations = {"rights"}

(***************************************************************************)
(* SpecScenario: ConsensusFusion.decide, with the default weights and the  *)
(* default threshold, applied to judgment maps of the five default critics *)
(***************************************************************************)
\* UncertaintyEngine's default threshold, 0.35
DefaultThreshold == <<35, 100>>

ScenarioScores == {1, 9}

ScenarioConfidences == {2, 9}

ScenarioMaps ==
    [DOMAIN DEFAULT_WEIGHTS ->
        {Judgment(s, c, FALSE) : s \in ScenarioScores, c \in ScenarioConfidences}]

InitScenario ==
    /\ Idle
    /\ probe \in [fn : {"decide"}, critics : ScenarioMaps, threshold : {DefaultThreshold},
                  out : {NoValue}]

\* decide(critics), with what its call of the uncertainty engine computed
DecideScenario ==
    /\ probe.fn = "decide"
    /\ probe.out = NoValue
    /\ probe' = [probe EXCEPT !.out =
                   [decision |-> ConsensusDecide(probe.critics, FALSE, probe.threshold, "none"),
                    unc      |-> UncertaintyCompute(probe.critics, probe.threshold)]]
    /\ UNCHANGED <<configVars, runtimeVars, bus, hooks, stream>>

NextScenario == DecideScenario

SpecScenario == InitScenario /\ [][NextScenario]_vars

\* scenario S2: every critic returns score 0.9 and confidence 0.9
AllAgree == [c \in DOMAIN DEFAULT_WEIGHTS |-> Judgment(9, 9, FALSE)]

\* scenario S3: the critics disagree
Disagree ==
    [c \in DOMAIN DEFAULT_WEIGHTS |->
        Judgment(IF c \in {"risk", "truth"} THEN 1 ELSE 9, 9, FALSE)]

\* C34: with the default weights and five critics each returning score 0.9, confidence
\* 0.9 and no violation, the decision has action proceed, confidence 0.675,
\* uncertainty 0 and escalate false.
C34_AllAgreeDecision ==
    (probe.fn = "decide" /\ probe.out # NoValue /\ probe.critics = AllAgree) =>
        /\ probe.out.decision.action = "proceed"
        /\ FracEq(probe.out.decision.confidence, <<675, 1000>>)
        /\ probe.out.decision.uncertainty[1] = 0
        /\ ~probe.out.unc.escalate

\* C35: with scores rights 0.9, risk 0.1, fairness 0.9, truth 0.1, pragmatics 0.9 and
\* all confidences 0.9, the dispersion computed is 0.16 and the uncertainty 0.4, which
\* is at least 0.35, so the action is escalate.
C35_DisagreeUncertainty ==
    (probe.fn = "decide" /\ probe.out # NoValue /\ probe.critics = Disagree) =>
        /\ FracEq(probe.out.unc.dispersion, <<16, 100>>)
        /\ FracEq(probe.out.unc.uncertainty, <<4, 10>>)
        /\ FracGeq(probe.out.unc.uncertainty, <<35, 100>>)
        /\ probe.out.decision.action = "escalate"

====
